---------------------------- MODULE Spec2Model ----------------------------
(***************************************************************************)
(* BenchmarkDotNet results publisher: the read-merge-write protocol of     *)
(* BenchmarksPublisher (src/src/main.ts) against a remote history          *)
(* document protected by a conditional write, and the regression           *)
(* evaluation that follows a successful write.                             *)
(*                                                                         *)
(* Spec        concurrent publish invocations against one remote document  *)
(* SpecMerge   mergeResults applied to bounded histories and result files  *)
(* SpecDeltas  processDeltas applied to bounded delta pairs                *)
(***************************************************************************)
EXTENDS Integers, Sequences, FiniteSets, TLC

(***************************************************************************)
(* Bounds of the model.                                                    *)
(***************************************************************************)
\* invocations of publish that run concurrently
Procs == {1, 2}
\* writes to the history document by publishers outside Procs
MaxOther == 2
\* longest suite of a history handed to mergeResults in SpecMerge
MaxHist == 3
\* most result files handed to mergeResults in SpecMerge
MaxFiles == 2
\* runs of the workflow that evaluate regressions on one pull request
MaxRuns == 3

(***************************************************************************)
(* JavaScript values.  A number field holds a number, NaN, null (what      *)
(* JSON.stringify writes for NaN) or undefined (field absent).             *)
(***************************************************************************)
Num(n) == [t |-> "number", v |-> n]
NaN == [t |-> "NaN", v |-> 0]
Null == [t |-> "null", v |-> 0]
Undefined == [t |-> "undefined", v |-> 0]
Str(s) == [t |-> "string", v |-> s]

\* JSON.parse(JSON.stringify(x)) of a number field: NaN is written as null,
\* an undefined property is dropped and reads back as undefined.
JsonNumber(x) == IF x.t = "NaN" THEN Null ELSE x

JsonPoint(b) == [b EXCEPT !.value = JsonNumber(b.value), !.bytesAllocated = JsonNumber(b.bytesAllocated)]

JsonEntry(e) == [e EXCEPT !.benches = [i \in 1..Len(e.benches) |-> JsonPoint(e.benches[i])]]

\* JSON.stringify(results, null, 2) followed by JSON.parse on the next read
JsonDocument(d) == [d EXCEPT !.entries = [s \in DOMAIN d.entries |-> [i \in 1..Len(d.entries[s]) |-> JsonEntry(d.entries[s][i])]]]

(***************************************************************************)
(* Result files (BenchmarkDotNetResults).  A title is a sequence of        *)
(* characters, so that split('-') is computed and not assumed.             *)
(***************************************************************************)
Stats(mean, sd) == [present |-> TRUE, Mean |-> mean, StandardDeviation |-> sd]
NoStats == [present |-> FALSE, Mean |-> 0, StandardDeviation |-> 0]
Memory(bytes) == [present |-> TRUE, BytesAllocatedPerOperation |-> bytes]
NoMemory == [present |-> FALSE, BytesAllocatedPerOperation |-> 0]

Benchmark(name, stats, mem) == [FullName |-> name, Statistics |-> stats, Memory |-> mem]

\* a parsed file; missing names the field the JSON does not have, if any
Results(title, benches) == [ok |-> TRUE, missing |-> "", Title |-> title, Benchmarks |-> benches]

\* a file that JSON.parse rejects
BadFile == [ok |-> FALSE, missing |-> "", Title |-> <<>>, Benchmarks |-> <<>>]

\* JSON that parses and has no Title, or no Benchmarks
WithoutTitle(benches) == [ok |-> TRUE, missing |-> "Title", Title |-> <<>>, Benchmarks |-> benches]
WithoutBenchmarks(title) == [ok |-> TRUE, missing |-> "Benchmarks", Title |-> title, Benchmarks |-> <<>>]

\* mergeResults throws a TypeError: result.Title.split of undefined when no
\* name is set, or the iteration of result.Benchmarks of undefined
ThrowsOn(opts, result) == (opts.name = <<>> /\ result.missing = "Title") \/ result.missing = "Benchmarks"

MergeThrows(results, opts) == \E i \in 1..Len(results) : ThrowsOn(opts, results[i])

\* a split that keeps everything before the last '-'
SplitTitleAtLast(title) ==
    IF \E i \in 1..Len(title) : title[i] = "-"
    THEN SubSeq(title, 1, (CHOOSE i \in 1..Len(title) : title[i] = "-" /\ \A j \in (i + 1)..Len(title) : title[j] # "-") - 1)
    ELSE title

\* result.Title.split('-')[0]
SplitTitle(title) ==
    IF \E i \in 1..Len(title) : title[i] = "-"
    THEN SubSeq(title, 1, (CHOOSE i \in 1..Len(title) : title[i] = "-" /\ \A j \in 1..(i - 1) : title[j] # "-") - 1)
    ELSE title

\* suiteName = this.options.name, or the title's prefix when that is falsy
SuiteNameOf(opts, result) == IF opts.name # <<>> THEN opts.name ELSE SplitTitle(result.Title)

\* one BenchmarkResult of mergeResults
Item(benchmark) ==
    [name |-> benchmark.FullName,
     value |-> IF benchmark.Statistics.present THEN Num(benchmark.Statistics.Mean) ELSE NaN,
     unit |-> "ns",
     range |-> IF benchmark.Statistics.present THEN Str(benchmark.Statistics.StandardDeviation) ELSE Undefined,
     bytesAllocated |-> IF benchmark.Memory.present THEN Num(benchmark.Memory.BytesAllocatedPerOperation) ELSE Undefined]

Items(result) == [i \in 1..Len(result.Benchmarks) |-> Item(result.Benchmarks[i])]

\* a merge that never truncates
TruncateNoCap(suite, maxItems) == suite

\* a slice that keeps the first maxItems entries instead of the last
TruncateBack(suite, maxItems) ==
    IF maxItems # 0 /\ Len(suite) > maxItems
    THEN SubSeq(suite, 1, maxItems)
    ELSE suite

\* a slice that keeps one entry more than maxItems
TruncateFrontPlusOne(suite, maxItems) ==
    IF maxItems # 0 /\ Len(suite) > maxItems + 1
    THEN SubSeq(suite, Len(suite) - maxItems, Len(suite))
    ELSE suite

\* suite.slice(suite.length - maxItems) when maxItems is truthy and exceeded
TruncateFront(suite, maxItems) ==
    IF maxItems # 0 /\ Len(suite) > maxItems
    THEN SubSeq(suite, Len(suite) - maxItems + 1, Len(suite))
    ELSE suite

\* a merge that applies the cap to every suite of the document
MergeFileCapAll(entries, result, c, now, opts) ==
    LET suiteName == SuiteNameOf(opts, result)
        suite == IF suiteName \in DOMAIN entries THEN entries[suiteName] ELSE <<>>
        pushed == Append(suite, [commit |-> c, date |-> now, benches |-> Items(result)])
    IN  [s \in (DOMAIN entries) \cup {suiteName} |-> TruncateFront(IF s = suiteName THEN pushed ELSE entries[s], opts.maxItems)]

\* the body of the loop of mergeResults for one result file
MergeFile(entries, result, c, now, opts) ==
    LET suiteName == SuiteNameOf(opts, result)
        suite == IF suiteName \in DOMAIN entries THEN entries[suiteName] ELSE <<>>
        pushed == Append(suite, [commit |-> c, date |-> now, benches |-> Items(result)])
        kept == TruncateFront(pushed, opts.maxItems)
    IN  [s \in (DOMAIN entries) \cup {suiteName} |-> IF s = suiteName THEN kept ELSE entries[s]]

\* a loop that takes the result files last to first
RECURSIVE MergeFilesBackwards(_, _, _, _, _)
MergeFilesBackwards(entries, results, c, now, opts) ==
    IF results = <<>>
    THEN entries
    ELSE MergeFile(MergeFilesBackwards(entries, Tail(results), c, now, opts), Head(results), c, now, opts)

RECURSIVE MergeFiles(_, _, _, _, _)
MergeFiles(entries, results, c, now, opts) ==
    IF results = <<>>
    THEN entries
    ELSE MergeFiles(MergeFile(entries, Head(results), c, now, opts), Tail(results), c, now, opts)

\* a merge that appends the entry of every result file twice
mergeResultsTwice(existingData, results, c, now, opts) ==
    [existingData EXCEPT !.lastUpdated = now, !.entries = MergeFiles(existingData.entries, results \o results, c, now, opts)]

mergeResults(existingData, results, c, now, opts) ==
    [existingData EXCEPT !.lastUpdated = now, !.entries = MergeFiles(existingData.entries, results, c, now, opts)]

\* mergedData shares its entries object with existingData ({ ...existingData }
\* is a shallow copy), so after the call existingData shows the merged
\* entries under its own lastUpdated.
ExistingAfterMerge(existingData, mergedData) == [mergedData EXCEPT !.lastUpdated = existingData.lastUpdated]


(***************************************************************************)
(* Deltas of publishResults: for every suite of the merged document, the   *)
(* points of its last entry paired with the same-named point of the entry  *)
(* before it.                                                              *)
(***************************************************************************)
NoPoint == [name |-> "", value |-> Undefined, unit |-> "", range |-> Undefined, bytesAllocated |-> Undefined]

\* previousBenchmark?.benches.find((b) => b.name === current.name)
FindByName(benches, name) ==
    IF \E i \in 1..Len(benches) : benches[i].name = name
    THEN benches[CHOOSE i \in 1..Len(benches) : benches[i].name = name /\ \A j \in 1..(i - 1) : benches[j].name # name]
    ELSE NoPoint

RECURSIVE PairUp(_, _)
PairUp(currents, previousBenches) ==
    IF currents = <<>>
    THEN <<>>
    ELSE LET previous == FindByName(previousBenches, Head(currents).name)
             rest == PairUp(Tail(currents), previousBenches)
         IN  IF previous = NoPoint THEN rest ELSE <<[current |-> Head(currents), previous |-> previous]>> \o rest

\* variant: the newest entry is compared with the entry two places before it
SuiteDeltasSkippingOne(suite) ==
    PairUp(suite[Len(suite)].benches, IF Len(suite) > 2 THEN suite[Len(suite) - 2].benches ELSE <<>>)

\* variant: the newest entry is compared with the oldest one kept
SuiteDeltasAgainstOldest(suite) == PairUp(suite[Len(suite)].benches, suite[1].benches)

SuiteDeltas(suite) ==
    LET currentBenchmark == suite[Len(suite)]
        previousBenches == IF Len(suite) > 1 THEN suite[Len(suite) - 1].benches ELSE <<>>
    IN  PairUp(currentBenchmark.benches, previousBenches)

ComputeDeltas(mergedData) == [s \in DOMAIN mergedData.entries |-> SuiteDeltas(mergedData.entries[s])]

(***************************************************************************)
(* processDeltas.  Arithmetic is JavaScript's: null counts as 0, NaN       *)
(* propagates, a division by zero gives an infinity or NaN.  A ratio is    *)
(* kept as the fraction n/d so that the comparison with the threshold is   *)
(* exact.                                                                  *)
(***************************************************************************)
IsNaN(x) == x.t \in {"NaN", "undefined"}
ToNumber(x) == IF x.t = "number" THEN x.v ELSE 0

JsNaN == [t |-> "NaN", n |-> 0, d |-> 1]
Fraction(n, d) == [t |-> "number", n |-> n, d |-> d]

\* current - previous
Minus(a, b) == IF IsNaN(a) \/ IsNaN(b) THEN JsNaN ELSE Fraction(ToNumber(a) - ToNumber(b), 1)

\* delta / previous
Over(delta, b) ==
    IF delta.t = "NaN" \/ IsNaN(b) THEN JsNaN
    ELSE IF ToNumber(b) = 0
         THEN IF delta.n > 0 THEN [t |-> "Infinity", n |-> 1, d |-> 0]
              ELSE IF delta.n < 0 THEN [t |-> "-Infinity", n |-> -1, d |-> 0]
              ELSE JsNaN
         ELSE Fraction(delta.n, ToNumber(b))

\* ratio * 100
Times100(r) == IF r.t = "number" THEN Fraction(r.n * 100, r.d) ELSE r

\* ratio >= threshold: the comparison with the boundary included
GreaterOrEqual(r, threshold) ==
    \/ r.t = "Infinity"
    \/ r.t = "number" /\ IF r.d > 0 THEN r.n >= threshold * r.d ELSE r.n <= threshold * r.d

\* ratio > threshold
GreaterThan(r, threshold) ==
    \/ r.t = "Infinity"
    \/ r.t = "number" /\ IF r.d > 0 THEN r.n > threshold * r.d ELSE r.n < threshold * r.d

\* this.options.failThresholdDuration ?? 2
DefaultThreshold == 2
ThresholdOf(option) == IF option.t = "number" THEN option.v ELSE DefaultThreshold

\* truthiness of a number field
Truthy(x) == x.t = "number" /\ x.v # 0

Regression(name, type, current, previous) ==
    LET ratio == Over(Minus(current, previous), previous)
    IN  [name |-> name, type |-> type, current |-> current, previous |-> previous,
         percentage |-> Times100(ratio), ratio |-> ratio]

\* a pair is passed over only when it has no previous point
SkippedWhenAbsent(delta) == delta.previous = NoPoint

\* if (!previous || previous.value === 0) continue
Skipped(delta) == delta.previous = NoPoint \/ delta.previous.value = Num(0)

\* the duration check of one delta
DurationRegressions(delta, opts) ==
    IF GreaterThan(Over(Minus(delta.current.value, delta.previous.value), delta.previous.value), ThresholdOf(opts.failThresholdDuration))
    THEN <<Regression(delta.current.name, "duration", delta.current.value, delta.previous.value)>>
    ELSE <<>>

\* the memory check of one delta
MemoryRegressions(delta, opts) ==
    IF /\ Truthy(delta.current.bytesAllocated)
       /\ Truthy(delta.previous.bytesAllocated)
       /\ GreaterThan(Over(Minus(delta.current.bytesAllocated, delta.previous.bytesAllocated), delta.previous.bytesAllocated), ThresholdOf(opts.failThresholdMemory))
    THEN <<Regression(delta.current.name, "memory", delta.current.bytesAllocated, delta.previous.bytesAllocated)>>
    ELSE <<>>

\* a memory check that is made only when the duration has not regressed
MemoryUnlessDuration(duration, memory) == IF duration # <<>> THEN duration ELSE memory

\* the two checks push in turn: duration first, then memory
BothChecks(duration, memory) == duration \o memory

\* the regressions one delta contributes
DeltaRegressions(delta, opts) ==
    IF Skipped(delta)
    THEN <<>>
    ELSE BothChecks(DurationRegressions(delta, opts), MemoryRegressions(delta, opts))

RECURSIVE SuiteRegressions(_, _)
SuiteRegressions(suite, opts) ==
    IF suite = <<>> THEN <<>> ELSE DeltaRegressions(Head(suite), opts) \o SuiteRegressions(Tail(suite), opts)

\* regressions[suiteName] for every suite of the deltas
ComputeRegressions(ds, opts) == [s \in DOMAIN ds |-> SuiteRegressions(ds[s], opts)]

HasRegressions(rs) == \E s \in DOMAIN rs : Len(rs[s]) > 0


(***************************************************************************)
(* State.                                                                  *)
(***************************************************************************)
VARIABLES
    remoteBranch,    \* the target branch exists in the remote repository
    remoteFile,      \* the history document at the remote: exists, content, sha
    thread,          \* comments of the pull-request thread
    commitComments,  \* comments left on the commit
    clock,           \* Date.now()
    otherWrites,     \* writes made so far by publishers outside Procs
    pc,              \* position of each invocation
    options,         \* PublishOptions of each invocation
    paths,           \* the result files findJsonResults found
    benchmarks,      \* parsed result files, in discovery order
    commit,          \* commit descriptor fetched by getCurrentCommit
    attempts,        \* attempts of publishResults
    data,            \* document returned by getCurrentResults
    sha,             \* fingerprint returned by getCurrentResults, 0 when undefined
    merged,          \* document returned by mergeResults
    deltas,          \* result of publishResults
    regressions,     \* regressions of processDeltas
    prs,             \* the pull requests listed for the commit of each invocation
    commentId,       \* comment_id of postCommentOnPullRequest, 0 when null
    failed,          \* message given to core.setFailed
    errors,          \* messages given to core.error
    warnings,        \* messages given to core.warning
    ops              \* remote operations issued by the invocation, with their outcome

remoteVars == <<remoteBranch, remoteFile, thread, commitComments, clock, otherWrites>>
localVars == <<pc, options, paths, benchmarks, commit, attempts, data, sha, merged, deltas, regressions, prs, commentId, failed, errors, warnings, ops>>
vars == <<remoteVars, localVars>>

maxRetries == 3

RepoUrl == "https://github.local/owner/repo"

\* the document getCurrentResults makes up when the file is not found
EmptyDocument == [lastUpdated |-> 0, repoUrl |-> RepoUrl, entries |-> <<>>]

NoFile == [exists |-> FALSE, content |-> EmptyDocument, sha |-> 0]

Message(kind, n) == [kind |-> kind, n |-> n]
NoMessage == Message("", 0)
RegressedMessage == Message("One or more benchmarks' values have regressed.", 0)
ExhaustedMessage == Message("Failed to update results after attempts.", maxRetries)
ParseMessage(file) == Message("Failed to parse as BenchmarkDotNet JSON output. Results must be a JSON file generated with the '--exporters json' option", file)
FaultMessage == Message("HttpError", 0)
TypeErrorMessage == Message("TypeError: Cannot read properties of undefined", 0)

\* getCurrentCommit: the descriptor of the commit that triggered invocation p
CommitOf(p) == [sha |-> p, message |-> "commit"]
OtherCommit == [sha |-> 0, message |-> "commit"]

Op(name, result, fingerprint) == [op |-> name, result |-> result, sha |-> fingerprint]

CommentOps == {"listPullRequests", "listComments", "updateComment", "createComment", "createCommitComment"}
PostingOps == {"updateComment", "createComment", "createCommitComment"}
RemoteCalls == {"getCommit", "getBranch", "getRepo", "getDefaultBranch", "createRef", "getContent", "createOrUpdateFileContents"} \cup CommentOps

\* the operations of the log that have the given name
OpsNamed(log, names) == SelectSeq(log, LAMBDA o : o.op \in names)

(***************************************************************************)
(* Inputs of the concurrent specification.                                 *)
(***************************************************************************)
SuiteATitle == <<"A", "-", "x">>
SuiteBTitle == <<"B">>

FileA(mean, bytes) == Results(SuiteATitle, <<Benchmark("A.m", Stats(mean, 5), Memory(bytes))>>)
FileB == Results(SuiteBTitle, <<Benchmark("B.m", NoStats, NoMemory)>>)

\* what getBenchmarks may discover
Discoveries == {<<>>, <<BadFile>>, <<FileA(350, 64)>>, <<FileB, FileA(100, 64)>>, <<FileA(350, 64), BadFile>>}

PublishOptions(maxItems, name, comment, fail) ==
    [maxItems |-> maxItems, name |-> name, commentOnThreshold |-> comment, failOnThreshold |-> fail,
     failThresholdDuration |-> Undefined, failThresholdMemory |-> Undefined]

NoOptions == PublishOptions(0, <<>>, FALSE, FALSE)

OptionSets == {NoOptions, PublishOptions(1, <<>>, FALSE, TRUE), PublishOptions(2, <<>>, TRUE, TRUE)}

(***************************************************************************)
(* run: what its catch block does with an error thrown by the publisher.   *)
(***************************************************************************)
\* a catch block that logs the error and signals no failure
CatchLogOnly(p, message) ==
    /\ errors' = [errors EXCEPT ![p] = <<Message("Failed to publish benchmark results.", 0), message, Message("stack", 0)>>]
    /\ failed' = failed
    /\ pc' = [pc EXCEPT ![p] = "done"]

Catch(p, message) ==
    /\ errors' = [errors EXCEPT ![p] = <<Message("Failed to publish benchmark results.", 0), message, Message("stack", 0)>>]
    /\ failed' = [failed EXCEPT ![p] = message]
    /\ pc' = [pc EXCEPT ![p] = "done"]

Log(p, name, result, fingerprint) == ops' = [ops EXCEPT ![p] = Append(@, Op(name, result, fingerprint))]

(***************************************************************************)
(* publish: getBenchmarks, then the branch on the number of results.       *)
(***************************************************************************)
\* a publish that goes on to publishResults with nothing to publish
AfterDiscoveryAlways(count) == "getCommit"

\* publish: if (count > 0) publishResults, else the warning and the end
AfterDiscovery(count) == IF count > 0 THEN "getCommit" ELSE "done"

NothingFound == "No BenchmarkDotNet results found to publish."

\* a getBenchmarks that takes every file as it comes
NoneRejected(found) == FALSE

\* parseResults throws for a file that is not JSON
AnyRejected(found) == \E i \in 1..Len(found) : ~found[i].ok

\* the first file of the list that JSON.parse rejects
FirstRejected(found) == CHOOSE i \in 1..Len(found) : ~found[i].ok /\ \A j \in 1..(i - 1) : found[j].ok

\* getBenchmarks over the files found, and the branch of publish on their
\* number; with core.isDebug() the names of result.Benchmarks are listed
Discover(p, found) ==
    /\ pc[p] = "getBenchmarks"
    /\ paths' = [paths EXCEPT ![p] = found]
    /\ \E debug \in BOOLEAN :
        IF AnyRejected(found)
        THEN /\ Catch(p, ParseMessage(FirstRejected(found)))
             /\ UNCHANGED <<benchmarks, warnings>>
        ELSE IF debug /\ \E i \in 1..Len(found) : found[i].missing = "Benchmarks"
        THEN /\ Catch(p, TypeErrorMessage)
             /\ UNCHANGED <<benchmarks, warnings>>
        ELSE /\ benchmarks' = [benchmarks EXCEPT ![p] = found]
             /\ pc' = [pc EXCEPT ![p] = AfterDiscovery(Len(found))]
             /\ warnings' = [warnings EXCEPT ![p] = IF Len(found) > 0 THEN @ ELSE Append(@, NothingFound)]
             /\ UNCHANGED <<errors, failed>>
    /\ UNCHANGED <<remoteVars, options, commit, attempts, data, sha, merged, deltas, regressions, prs, commentId, ops>>

GetBenchmarks(p) == \E found \in Discoveries : Discover(p, found)

(***************************************************************************)
(* publishResults.                                                         *)
(***************************************************************************)
GetCurrentCommit(p) ==
    /\ pc[p] = "getCommit"
    /\ commit' = [commit EXCEPT ![p] = CommitOf(p)]
    /\ attempts' = [attempts EXCEPT ![p] = 0]
    /\ Log(p, "getCommit", "ok", 0)
    /\ pc' = [pc EXCEPT ![p] = "getBranch"]
    /\ UNCHANGED <<remoteVars, options, paths, benchmarks, data, sha, merged, deltas, regressions, prs, commentId, failed, errors, warnings>>

\* an ensureBranch that takes a branch that is not found for one that exists
GetBranchNoBootstrap(p) ==
    /\ pc[p] = "getBranch"
    /\ Log(p, "getBranch", IF remoteBranch THEN "ok" ELSE "404", 0)
    /\ pc' = [pc EXCEPT ![p] = "getContent"]
    /\ UNCHANGED <<remoteVars, options, paths, benchmarks, commit, attempts, data, sha, merged, deltas, regressions, prs, commentId, failed, errors, warnings>>

\* ensureBranch: the lookup of the target branch
GetBranch(p) ==
    /\ pc[p] = "getBranch"
    /\ IF remoteBranch
       THEN Log(p, "getBranch", "ok", 0) /\ pc' = [pc EXCEPT ![p] = "getContent"]
       ELSE Log(p, "getBranch", "404", 0) /\ pc' = [pc EXCEPT ![p] = "getRepo"]
    /\ UNCHANGED <<remoteVars, options, paths, benchmarks, commit, attempts, data, sha, merged, deltas, regressions, prs, commentId, failed, errors, warnings>>

\* ensureBranch: the repository, for its default branch
GetRepo(p) ==
    /\ pc[p] = "getRepo"
    /\ Log(p, "getRepo", "ok", 0)
    /\ pc' = [pc EXCEPT ![p] = "getDefaultBranch"]
    /\ UNCHANGED <<remoteVars, options, paths, benchmarks, commit, attempts, data, sha, merged, deltas, regressions, prs, commentId, failed, errors, warnings>>

\* ensureBranch: the tip of the default branch
GetDefaultBranch(p) ==
    /\ pc[p] = "getDefaultBranch"
    /\ Log(p, "getDefaultBranch", "ok", 0)
    /\ pc' = [pc EXCEPT ![p] = "createRef"]
    /\ UNCHANGED <<remoteVars, options, paths, benchmarks, commit, attempts, data, sha, merged, deltas, regressions, prs, commentId, failed, errors, warnings>>

\* ensureBranch: createRef, which the remote rejects with 422 for a ref that
\* exists; ensureBranch catches nothing here
CreateRef(p) ==
    /\ pc[p] = "createRef"
    /\ IF remoteBranch
       THEN /\ Log(p, "createRef", "422", 0)
            /\ Catch(p, FaultMessage)
            /\ UNCHANGED remoteBranch
       ELSE /\ Log(p, "createRef", "ok", 0)
            /\ remoteBranch' = TRUE
            /\ pc' = [pc EXCEPT ![p] = "getContent"]
            /\ UNCHANGED <<failed, errors>>
    /\ UNCHANGED <<remoteFile, thread, commitComments, clock, otherWrites>>
    /\ UNCHANGED <<options, paths, benchmarks, commit, attempts, data, sha, merged, deltas, regressions, prs, commentId, warnings>>

\* a not-found branch that stamps the document it makes up with Date.now()
ReadRemoteStamped(file) ==
    IF file.exists
    THEN [data |-> file.content, sha |-> file.sha, result |-> "ok"]
    ELSE [data |-> [EmptyDocument EXCEPT !.lastUpdated = clock], sha |-> 0, result |-> "404"]

\* what getContent answers: the stored document and its sha, or not found
ReadRemote(file) ==
    IF file.exists
    THEN [data |-> file.content, sha |-> file.sha, result |-> "ok"]
    ELSE [data |-> EmptyDocument, sha |-> 0, result |-> "404"]

\* getCurrentResults after ensureBranch, then mergeResults, which runs before
\* the invocation is suspended again
GetContent(p) ==
    /\ pc[p] = "getContent"
    /\ LET read == ReadRemote(remoteFile)
           mergedData == mergeResults(read.data, benchmarks[p], commit[p], clock, options[p])
       IN  /\ sha' = [sha EXCEPT ![p] = read.sha]
           /\ Log(p, "getContent", read.result, read.sha)
           /\ IF MergeThrows(benchmarks[p], options[p])
              THEN /\ Catch(p, TypeErrorMessage)
                   /\ data' = [data EXCEPT ![p] = read.data]
                   /\ UNCHANGED merged
              ELSE /\ merged' = [merged EXCEPT ![p] = mergedData]
                   /\ data' = [data EXCEPT ![p] = ExistingAfterMerge(read.data, mergedData)]
                   /\ pc' = [pc EXCEPT ![p] = "createOrUpdateFileContents"]
                   /\ UNCHANGED <<failed, errors>>
    /\ clock' = clock + 1
    /\ UNCHANGED <<remoteBranch, remoteFile, thread, commitComments, otherWrites>>
    /\ UNCHANGED <<options, paths, benchmarks, commit, attempts, deltas, regressions, prs, commentId, warnings>>

\* the remote accepts a write whose sha is the sha of the stored file
\* (no sha for a file that does not exist)
WriteAccepted(file, fingerprint) == fingerprint = file.sha

\* the file after an accepted write
Written(file, document) == [exists |-> TRUE, content |-> JsonDocument(document), sha |-> file.sha + 1]

\* the status the remote may answer a write with: 200 or the conflict 409 as
\* the sha decides, or a fault such as 500
WriteStatuses(file, fingerprint) == {IF WriteAccepted(file, fingerprint) THEN 200 ELSE 409, 500}

StatusName(status) == IF status = 200 THEN "ok" ELSE IF status = 409 THEN "409" ELSE "fault"

\* a publisher that asks for the latest sha just before it writes
LatestFingerprint(p) == remoteFile.sha

\* updateResults(sha, merged): the sha of the read the merge was made from
SentFingerprint(p) == sha[p]

\* a catch block that takes every error for a conflict
AnyErrorIsConflict(status) == status # 200

\* updateResults: error['status'] === 409
IsConflict(status) == status = 409

\* a loop that goes on with the document and sha it holds
AfterConflictKeep(n) == IF n < maxRetries THEN "createOrUpdateFileContents" ELSE "throw"

\* a loop that returns when its attempts are used up
AfterConflictSilent(n) == IF n < maxRetries THEN "getBranch" ELSE "done"

\* a loop that asks for the commit again in every attempt
AfterConflictRefetch(n) == IF n < maxRetries THEN "getCommit" ELSE "throw"

\* a loop that gives up after its second attempt
AfterConflictTwice(n) == IF n < maxRetries - 1 THEN "getBranch" ELSE "throw"

\* where publishResults goes when updateResults has returned false n times
AfterConflict(n) == IF n < maxRetries THEN "getBranch" ELSE "throw"

\* a publish that evaluates the deltas whatever the options are
AfterPublishResultsAlways(opts) == "processDeltas"

\* publish: if (commentOnThreshold || failOnThreshold) processDeltas
AfterPublishResults(opts) == IF opts.commentOnThreshold \/ opts.failOnThreshold THEN "processDeltas" ELSE "done"

\* updateResults and what publishResults does with its answer
UpdateResults(p) ==
    /\ pc[p] = "createOrUpdateFileContents"
    /\ \E status \in WriteStatuses(remoteFile, SentFingerprint(p)) :
        /\ Log(p, "createOrUpdateFileContents", StatusName(status), SentFingerprint(p))
        /\ IF status = 200
           THEN /\ remoteFile' = Written(remoteFile, merged[p])
                /\ deltas' = [deltas EXCEPT ![p] = ComputeDeltas(merged[p])]
                /\ pc' = [pc EXCEPT ![p] = AfterPublishResults(options[p])]
                /\ UNCHANGED <<attempts, warnings, failed, errors>>
           ELSE IF IsConflict(status)
           THEN /\ warnings' = [warnings EXCEPT ![p] = Append(@, "Failed to create or update")]
                /\ attempts' = [attempts EXCEPT ![p] = @ + 1]
                /\ IF AfterConflict(attempts[p] + 1) = "throw"
                   THEN Catch(p, ExhaustedMessage)
                   ELSE /\ pc' = [pc EXCEPT ![p] = AfterConflict(attempts[p] + 1)]
                        /\ UNCHANGED <<failed, errors>>
                /\ UNCHANGED <<remoteFile, deltas>>
           ELSE /\ Catch(p, FaultMessage)
                /\ UNCHANGED <<remoteFile, deltas, attempts, warnings>>
    /\ UNCHANGED <<remoteBranch, thread, commitComments, clock, otherWrites>>
    /\ UNCHANGED <<options, paths, benchmarks, commit, data, sha, merged, regressions, prs, commentId>>

(***************************************************************************)
(* processDeltas, leaveComment and the end of publish.                     *)
(***************************************************************************)
RECURSIVE RegressionWarnings(_)
RegressionWarnings(n) == IF n = 0 THEN <<>> ELSE Append(RegressionWarnings(n - 1), "has regressed")

RECURSIVE CountRegressions(_, _)
CountRegressions(rs, suites) ==
    IF suites = {} THEN 0
    ELSE LET s == CHOOSE x \in suites : TRUE
         IN  Len(rs[s]) + CountRegressions(rs, suites \ {s})

\* a publish that never signals a failure for regressions
FailedAfterNever(p, hasRegressions) == failed[p]

\* the end of publish: setFailed when there are regressions and failOnThreshold
FailedAfter(p, hasRegressions) == IF hasRegressions /\ options[p].failOnThreshold THEN RegressedMessage ELSE failed[p]

\* a publish that throws when benchmarks have regressed
ErrorsAfterThrow(p, hasRegressions) ==
    IF hasRegressions /\ options[p].failOnThreshold
    THEN <<Message("Failed to publish benchmark results.", 0), RegressedMessage, Message("stack", 0)>>
    ELSE errors[p]

\* the end of publish logs no error
ErrorsAfter(p, hasRegressions) == errors[p]

Finish(p, hasRegressions) ==
    /\ failed' = [failed EXCEPT ![p] = FailedAfter(p, hasRegressions)]
    /\ errors' = [errors EXCEPT ![p] = ErrorsAfter(p, hasRegressions)]
    /\ pc' = [pc EXCEPT ![p] = "done"]

\* a processDeltas that never leaves a comment
CommentSkipped(p, hasRegressions) == FALSE

\* a processDeltas that leaves a comment whenever comments are enabled
CommentAlways(p, hasRegressions) == options[p].commentOnThreshold

\* whether processDeltas goes on to leaveComment
CommentWanted(p, hasRegressions) == hasRegressions /\ options[p].commentOnThreshold

ProcessDeltas(p) ==
    /\ pc[p] = "processDeltas"
    /\ LET found == ComputeRegressions(deltas[p], options[p])
       IN  /\ regressions' = [regressions EXCEPT ![p] = found]
           /\ warnings' = [warnings EXCEPT ![p] = @ \o RegressionWarnings(CountRegressions(found, DOMAIN found))]
           /\ IF CommentWanted(p, HasRegressions(found))
              THEN pc' = [pc EXCEPT ![p] = "listPullRequests"] /\ UNCHANGED <<failed, errors>>
              ELSE Finish(p, HasRegressions(found))
    /\ UNCHANGED <<remoteVars, options, paths, benchmarks, commit, attempts, data, sha, merged, deltas, prs, commentId, ops>>

\* a pull request of the commit, locked (active_lock_reason set) or not
PullRequest(number, locked) == [number |-> number, locked |-> locked]

\* what listPullRequestsAssociatedWithCommit may answer; the thread of the
\* model is that of pull request 1
PullRequestLists ==
    {<<>>,
     <<PullRequest(1, FALSE)>>,
     <<PullRequest(1, TRUE)>>,
     <<PullRequest(1, FALSE), PullRequest(2, TRUE)>>,
     <<PullRequest(1, TRUE), PullRequest(2, FALSE)>>}

\* a choice that takes any pull request that is not locked
CommentTargetAnyOpen(pullRequests) ==
    IF \E i \in 1..Len(pullRequests) : ~pullRequests[i].locked THEN "listComments" ELSE "createCommitComment"

\* a choice that does not look at the lock
CommentTargetAnyFirst(pullRequests) == IF Len(pullRequests) > 0 THEN "listComments" ELSE "createCommitComment"

\* prs.length > 0 && prs[0].active_lock_reason === null
CommentTarget(pullRequests) ==
    IF Len(pullRequests) > 0 /\ ~pullRequests[1].locked THEN "listComments" ELSE "createCommitComment"

\* postComment: the pull requests of the triggering commit, which the remote
\* answers with none, one that is open or one that is locked
ListPullRequests(p) ==
    /\ pc[p] = "listPullRequests"
    /\ Log(p, "listPullRequests", "ok", 0)
    /\ \E answer \in PullRequestLists :
        /\ prs' = [prs EXCEPT ![p] = answer]
        /\ pc' = [pc EXCEPT ![p] = CommentTarget(answer)]
    /\ UNCHANGED <<remoteVars, options, paths, benchmarks, commit, attempts, data, sha, merged, deltas, regressions, commentId, failed, errors, warnings>>

\* a search that never recognises the watermark
FindNothing(comments) == 0

\* comments.find((item) => item.body?.includes(this.commentWatermark))
FindWatermark(comments) ==
    IF \E i \in 1..Len(comments) : comments[i].watermark
    THEN comments[CHOOSE i \in 1..Len(comments) : comments[i].watermark /\ \A j \in 1..(i - 1) : ~comments[j].watermark].id
    ELSE 0

\* postCommentOnPullRequest: the list of the thread's comments
ListComments(p) ==
    /\ pc[p] = "listComments"
    /\ Log(p, "listComments", "ok", 0)
    /\ commentId' = [commentId EXCEPT ![p] = FindWatermark(thread)]
    /\ pc' = [pc EXCEPT ![p] = IF FindWatermark(thread) # 0 THEN "updateComment" ELSE "createComment"]
    /\ UNCHANGED <<remoteVars, options, paths, benchmarks, commit, attempts, data, sha, merged, deltas, regressions, prs, failed, errors, warnings>>

Comment(id, p) == [id |-> id, watermark |-> TRUE, by |-> p]

UpdateComment(p) ==
    /\ pc[p] = "updateComment"
    /\ Log(p, "updateComment", "ok", 0)
    /\ thread' = [i \in 1..Len(thread) |-> IF thread[i].id = commentId[p] THEN Comment(thread[i].id, p) ELSE thread[i]]
    /\ Finish(p, TRUE)
    /\ UNCHANGED <<remoteBranch, remoteFile, commitComments, clock, otherWrites>>
    /\ UNCHANGED <<options, paths, benchmarks, commit, attempts, data, sha, merged, deltas, regressions, prs, commentId, warnings>>

CreateComment(p) ==
    /\ pc[p] = "createComment"
    /\ Log(p, "createComment", "ok", 0)
    /\ thread' = Append(thread, Comment(Len(thread) + 1, p))
    /\ Finish(p, TRUE)
    /\ UNCHANGED <<remoteBranch, remoteFile, commitComments, clock, otherWrites>>
    /\ UNCHANGED <<options, paths, benchmarks, commit, attempts, data, sha, merged, deltas, regressions, prs, commentId, warnings>>

CreateCommitComment(p) ==
    /\ pc[p] = "createCommitComment"
    /\ Log(p, "createCommitComment", "ok", 0)
    /\ commitComments' = Append(commitComments, Comment(Len(commitComments) + 1, p))
    /\ Finish(p, TRUE)
    /\ UNCHANGED <<remoteBranch, remoteFile, thread, clock, otherWrites>>
    /\ UNCHANGED <<options, paths, benchmarks, commit, attempts, data, sha, merged, deltas, regressions, prs, commentId, warnings>>

(***************************************************************************)
(* The remote answers a call with a fault that is neither not-found nor a  *)
(* conflict: the error leaves the publisher and reaches run's catch.       *)
(***************************************************************************)
Fault(p) ==
    /\ pc[p] \in RemoteCalls \ {"createOrUpdateFileContents"}
    /\ Log(p, pc[p], "fault", 0)
    /\ Catch(p, FaultMessage)
    /\ UNCHANGED <<remoteBranch, remoteFile, thread, commitComments, clock, otherWrites>>
    /\ UNCHANGED <<options, paths, benchmarks, commit, attempts, data, sha, merged, deltas, regressions, prs, commentId, warnings>>

(***************************************************************************)
(* A publisher outside Procs reads, merges and writes the document with    *)
(* no step of Procs in between.                                            *)
(***************************************************************************)
OtherPublish ==
    /\ remoteBranch
    /\ otherWrites < MaxOther
    /\ remoteFile' = Written(remoteFile, mergeResults(ReadRemote(remoteFile).data, <<FileA(100, 64)>>, OtherCommit, clock, NoOptions))
    /\ clock' = clock + 1
    /\ otherWrites' = otherWrites + 1
    /\ UNCHANGED <<remoteBranch, thread, commitComments, localVars>>

(***************************************************************************)
(* The concurrent specification.                                           *)
(***************************************************************************)
InitLocal ==
    /\ paths = [p \in Procs |-> <<>>]
    /\ benchmarks = [p \in Procs |-> <<>>]
    /\ commit = [p \in Procs |-> OtherCommit]
    /\ attempts = [p \in Procs |-> 0]
    /\ data = [p \in Procs |-> EmptyDocument]
    /\ sha = [p \in Procs |-> 0]
    /\ merged = [p \in Procs |-> EmptyDocument]
    /\ deltas = [p \in Procs |-> <<>>]
    /\ regressions = [p \in Procs |-> <<>>]
    /\ prs = [p \in Procs |-> <<>>]
    /\ commentId = [p \in Procs |-> 0]
    /\ failed = [p \in Procs |-> NoMessage]
    /\ errors = [p \in Procs |-> <<>>]
    /\ warnings = [p \in Procs |-> <<>>]
    /\ ops = [p \in Procs |-> <<>>]

InitRemote ==
    /\ remoteFile = NoFile
    /\ thread = <<>>
    /\ commitComments = <<>>
    /\ clock = 1
    /\ otherWrites = 0

\* every invocation of Procs runs the same workflow, so with the same inputs
Init ==
    /\ remoteBranch = TRUE
    /\ InitRemote
    /\ pc = [p \in Procs |-> "getBenchmarks"]
    /\ \E o \in OptionSets : options = [p \in Procs |-> o]
    /\ InitLocal

Next ==
    \/ \E p \in Procs : GetBenchmarks(p)
    \/ \E p \in Procs : GetCurrentCommit(p)
    \/ \E p \in Procs : GetBranch(p)
    \/ \E p \in Procs : GetContent(p)
    \/ \E p \in Procs : UpdateResults(p)
    \/ \E p \in Procs : ProcessDeltas(p)
    \/ \E p \in Procs : ListPullRequests(p)
    \/ \E p \in Procs : ListComments(p)
    \/ \E p \in Procs : UpdateComment(p)
    \/ \E p \in Procs : CreateComment(p)
    \/ \E p \in Procs : CreateCommitComment(p)
    \/ \E p \in Procs : Fault(p)
    \/ OtherPublish

Spec == Init /\ [][Next]_vars

(***************************************************************************)
(* The branch bootstrap: the target branch does not exist yet and no       *)
(* publisher outside Procs writes.                                         *)
(***************************************************************************)
InitBranch ==
    /\ remoteBranch = FALSE
    /\ remoteFile = NoFile
    /\ thread = <<>>
    /\ commitComments = <<>>
    /\ clock = 1
    /\ otherWrites = MaxOther
    /\ pc = [p \in Procs |-> "getBenchmarks"]
    /\ options = [p \in Procs |-> NoOptions]
    /\ InitLocal

NextBranch ==
    \/ \E p \in Procs : GetBenchmarks(p)
    \/ \E p \in Procs : GetCurrentCommit(p)
    \/ \E p \in Procs : GetBranch(p)
    \/ \E p \in Procs : GetRepo(p)
    \/ \E p \in Procs : GetDefaultBranch(p)
    \/ \E p \in Procs : CreateRef(p)
    \/ \E p \in Procs : GetContent(p)
    \/ \E p \in Procs : UpdateResults(p)
    \/ \E p \in Procs : Fault(p)

SpecBranch == InitBranch /\ [][NextBranch]_vars

(***************************************************************************)
(* Result files that are not BenchmarkDotNet output: JSON that does not    *)
(* parse, and JSON that parses and lacks Title or Benchmarks.  The remote  *)
(* answers every call, so that an invocation fails for its files only.     *)
(***************************************************************************)
OneBenchmark == <<Benchmark("A.m", Stats(100, 5), Memory(64))>>

ParseDiscoveries ==
    {<<FileA(100, 64)>>,
     <<BadFile>>,
     <<FileA(100, 64), BadFile>>,
     <<WithoutTitle(OneBenchmark)>>,
     <<FileA(100, 64), WithoutTitle(OneBenchmark)>>,
     <<WithoutBenchmarks(SuiteATitle)>>}

ParseOptions == {NoOptions, PublishOptions(0, <<"A">>, FALSE, FALSE)}

InitParse ==
    /\ remoteBranch = TRUE
    /\ remoteFile = NoFile
    /\ thread = <<>>
    /\ commitComments = <<>>
    /\ clock = 1
    /\ otherWrites = MaxOther
    /\ pc = [p \in Procs |-> "getBenchmarks"]
    /\ \E o \in ParseOptions : options = [p \in Procs |-> o]
    /\ InitLocal

GetBenchmarksOfAnyShape(p) == \E found \in ParseDiscoveries : Discover(p, found)

NextParse ==
    \/ \E p \in Procs : GetBenchmarksOfAnyShape(p)
    \/ \E p \in Procs : GetCurrentCommit(p)
    \/ \E p \in Procs : GetBranch(p)
    \/ \E p \in Procs : GetContent(p)
    \/ \E p \in Procs : UpdateResults(p)

SpecParse == InitParse /\ [][NextParse]_vars

(***************************************************************************)
(* Regression evaluations one after the other: each run of the workflow    *)
(* has written its document and found a regression to comment on, and a    *)
(* run starts its evaluation only when no other is in the middle of one.   *)
(* The thread may already hold a comment that is not the publisher's.      *)
(***************************************************************************)
RegressedPair == [current |-> Item(Benchmark("A.m", Stats(350, 5), NoMemory)), previous |-> Item(Benchmark("A.m", Stats(100, 5), NoMemory))]

SomeoneElses == [id |-> 1, watermark |-> FALSE, by |-> 0]

InitComment ==
    /\ remoteBranch = TRUE
    /\ remoteFile = NoFile
    /\ thread \in {<<>>, <<SomeoneElses>>}
    /\ commitComments = <<>>
    /\ clock = 1
    /\ otherWrites = MaxOther
    /\ pc = [p \in Procs |-> "processDeltas"]
    /\ \E fail \in BOOLEAN : options = [p \in Procs |-> PublishOptions(0, <<>>, TRUE, fail)]
    /\ paths = [p \in Procs |-> <<>>]
    /\ benchmarks = [p \in Procs |-> <<>>]
    /\ commit = [p \in Procs |-> CommitOf(p)]
    /\ attempts = [p \in Procs |-> 0]
    /\ data = [p \in Procs |-> EmptyDocument]
    /\ sha = [p \in Procs |-> 0]
    /\ merged = [p \in Procs |-> EmptyDocument]
    /\ deltas = [p \in Procs |-> [s \in {<<"A">>} |-> <<RegressedPair>>]]
    /\ regressions = [p \in Procs |-> <<>>]
    /\ prs = [p \in Procs |-> <<>>]
    /\ commentId = [p \in Procs |-> 0]
    /\ failed = [p \in Procs |-> NoMessage]
    /\ errors = [p \in Procs |-> <<>>]
    /\ warnings = [p \in Procs |-> <<>>]
    /\ ops = [p \in Procs |-> <<>>]

\* no other invocation is between its processDeltas and its end
Alone(p) == \A q \in Procs \ {p} : pc[q] \in {"processDeltas", "done"}

\* the workflow runs again for the same pull request: a new run, whose
\* remote calls are logged after those of the run before
Rerun(p) ==
    /\ pc[p] = "done"
    /\ clock < MaxRuns
    /\ clock' = clock + 1
    /\ pc' = [pc EXCEPT ![p] = "processDeltas"]
    /\ regressions' = [regressions EXCEPT ![p] = <<>>]
    /\ prs' = [prs EXCEPT ![p] = <<>>]
    /\ commentId' = [commentId EXCEPT ![p] = 0]
    /\ failed' = [failed EXCEPT ![p] = NoMessage]
    /\ errors' = [errors EXCEPT ![p] = <<>>]
    /\ warnings' = [warnings EXCEPT ![p] = <<>>]
    /\ UNCHANGED <<remoteBranch, remoteFile, thread, commitComments, otherWrites>>
    /\ UNCHANGED <<options, paths, benchmarks, commit, attempts, data, sha, merged, deltas, ops>>

NextComment ==
    \/ \E p \in Procs : Alone(p) /\ ProcessDeltas(p)
    \/ \E p \in Procs : Alone(p) /\ ListPullRequests(p)
    \/ \E p \in Procs : Alone(p) /\ ListComments(p)
    \/ \E p \in Procs : Alone(p) /\ UpdateComment(p)
    \/ \E p \in Procs : Alone(p) /\ CreateComment(p)
    \/ \E p \in Procs : Alone(p) /\ CreateCommitComment(p)
    \/ \E p \in Procs : Alone(p) /\ Rerun(p)

SpecComment == InitComment /\ [][NextComment]_vars

(***************************************************************************)
(* The same regression evaluations running at the same time: the steps of  *)
(* the two invocations interleave freely.                                  *)
(***************************************************************************)
NextCommentConcurrent ==
    \/ \E p \in Procs : ProcessDeltas(p)
    \/ \E p \in Procs : ListPullRequests(p)
    \/ \E p \in Procs : ListComments(p)
    \/ \E p \in Procs : UpdateComment(p)
    \/ \E p \in Procs : CreateComment(p)
    \/ \E p \in Procs : CreateCommitComment(p)

SpecCommentConcurrent == InitComment /\ [][NextCommentConcurrent]_vars

(***************************************************************************)
(* mergeResults on its own: invocation 1 has just read a history and is    *)
(* about to merge its result files into it.                                *)
(***************************************************************************)
Suite(name) == <<name>>

OldPoint(name) == [name |-> name, value |-> Num(100), unit |-> "ns", range |-> Str(5), bytesAllocated |-> Undefined]

\* the i-th oldest entry of a stored suite
OldEntry(name, i) == [commit |-> OtherCommit, date |-> i, benches |-> <<OldPoint(name)>>]

OldSuite(name, n) == [i \in 1..n |-> OldEntry(name, i)]

\* a stored document whose suites A and B hold la and lb entries
History(la, lb) ==
    [lastUpdated |-> MaxHist,
     repoUrl |-> RepoUrl,
     entries |-> [s \in {Suite(x) : x \in {y \in {"A", "B"} : (y = "A" /\ la > 0) \/ (y = "B" /\ lb > 0)}} |->
                    IF s = Suite("A") THEN OldSuite("A.m", la) ELSE OldSuite("B.m", lb)]]

Histories == {History(la, lb) : la \in 0..MaxHist, lb \in 0..MaxHist}

FileA2 == Results(<<"A", "-", "x", "-", "y">>, <<Benchmark("A.m", Stats(350, 5), NoMemory)>>)

MergeInputs == {FileA(100, 64), FileA2, FileB}

RECURSIVE SeqsUpTo(_, _)
SeqsUpTo(S, n) == IF n = 0 THEN {<<>>} ELSE LET shorter == SeqsUpTo(S, n - 1) IN shorter \cup {Append(q, x) : q \in shorter, x \in S}

\* publishResults is only called with at least one result file
FileLists == SeqsUpTo(MergeInputs, MaxFiles) \ {<<>>}

MergeOptions == {PublishOptions(m, n, FALSE, FALSE) : m \in 0..MaxHist, n \in {<<>>, Suite("A")}}

MergeNow == MaxHist + 1

InitMerge ==
    /\ remoteBranch = TRUE
    /\ \E h \in Histories : remoteFile = (IF h.entries = <<>> THEN NoFile ELSE [exists |-> TRUE, content |-> h, sha |-> 1])
    /\ data = [p \in Procs |-> IF p = 1 THEN ReadRemote(remoteFile).data ELSE EmptyDocument]
    /\ sha = [p \in Procs |-> IF p = 1 THEN ReadRemote(remoteFile).sha ELSE 0]
    /\ thread = <<>>
    /\ commitComments = <<>>
    /\ clock = MergeNow
    /\ otherWrites = MaxOther
    /\ pc = [p \in Procs |-> IF p = 1 THEN "mergeResults" ELSE "done"]
    /\ \E o \in MergeOptions : options = [p \in Procs |-> o]
    /\ \E found \in FileLists : benchmarks = [p \in Procs |-> IF p = 1 THEN found ELSE <<>>]
    /\ paths = benchmarks
    /\ commit = [p \in Procs |-> CommitOf(p)]
    /\ attempts = [p \in Procs |-> 0]
    /\ merged = [p \in Procs |-> EmptyDocument]
    /\ deltas = [p \in Procs |-> <<>>]
    /\ regressions = [p \in Procs |-> <<>>]
    /\ prs = [p \in Procs |-> <<>>]
    /\ commentId = [p \in Procs |-> 0]
    /\ failed = [p \in Procs |-> NoMessage]
    /\ errors = [p \in Procs |-> <<>>]
    /\ warnings = [p \in Procs |-> <<>>]
    /\ ops = [p \in Procs |-> <<>>]

\* the call of mergeResults, with what it leaves in the document it was given
MergeResults(p) ==
    /\ pc[p] = "mergeResults"
    /\ LET mergedData == mergeResults(data[p], benchmarks[p], commit[p], clock, options[p])
       IN  /\ merged' = [merged EXCEPT ![p] = mergedData]
           /\ data' = [data EXCEPT ![p] = ExistingAfterMerge(data[p], mergedData)]
    /\ pc' = [pc EXCEPT ![p] = "merged"]
    /\ UNCHANGED <<remoteVars, options, paths, benchmarks, commit, attempts, sha, deltas, regressions, prs, commentId, failed, errors, warnings, ops>>

NextMerge == \E p \in Procs : MergeResults(p)

SpecMerge == InitMerge /\ [][NextMerge]_vars

(***************************************************************************)
(* One publish against a stored history: invocation 1 runs from discovery  *)
(* to the end of publish with fail-on-threshold set, no other writer is    *)
(* active.  A stored suite is absent, or holds one entry, or two entries   *)
(* with the same value, or two entries of which the newer one is 3.5       *)
(* times the older.                                                        *)
(***************************************************************************)
StoredPoint(name, mean) == [name |-> name, value |-> Num(mean), unit |-> "ns", range |-> Str(5), bytesAllocated |-> Undefined]

StoredEntry(name, i, mean) == [commit |-> OtherCommit, date |-> i, benches |-> <<StoredPoint(name, mean)>>]

SuiteKinds == {"absent", "one", "flat", "rising"}

StoredSuite(name, kind) ==
    IF kind = "one" THEN <<StoredEntry(name, 1, 100)>>
    ELSE IF kind = "flat" THEN <<StoredEntry(name, 1, 100), StoredEntry(name, 2, 100)>>
    ELSE <<StoredEntry(name, 1, 100), StoredEntry(name, 2, 350)>>

StoredHistory(ka, kb) ==
    [lastUpdated |-> 2,
     repoUrl |-> RepoUrl,
     entries |-> [s \in {Suite(x) : x \in {y \in {"A", "B"} : (y = "A" /\ ka # "absent") \/ (y = "B" /\ kb # "absent")}} |->
                    IF s = Suite("A") THEN StoredSuite("A.m", ka) ELSE StoredSuite("B.m", kb)]]

StoredHistories == {StoredHistory(ka, kb) : ka \in SuiteKinds, kb \in SuiteKinds}

PublishDiscoveries ==
    {<<FileA(100, 64)>>,
     <<FileA(350, 64)>>,
     <<FileB>>,
     <<FileB, FileA(350, 64)>>,
     <<FileA(100, 64), FileA(350, 64)>>}

PublishOptionSets == {NoOptions} \cup {PublishOptions(m, <<>>, FALSE, TRUE) : m \in {0, 1, 2}}

InitPublish ==
    /\ remoteBranch = TRUE
    /\ \E h \in StoredHistories : remoteFile = (IF h.entries = <<>> THEN NoFile ELSE [exists |-> TRUE, content |-> h, sha |-> 1])
    /\ thread = <<>>
    /\ commitComments = <<>>
    /\ clock = 3
    /\ otherWrites = MaxOther
    /\ pc = [p \in Procs |-> IF p = 1 THEN "getBenchmarks" ELSE "done"]
    /\ \E o \in PublishOptionSets : options = [p \in Procs |-> o]
    /\ InitLocal

GetBenchmarksToPublish(p) == \E found \in PublishDiscoveries : Discover(p, found)

NextPublish ==
    \/ \E p \in Procs : GetBenchmarksToPublish(p)
    \/ \E p \in Procs : GetCurrentCommit(p)
    \/ \E p \in Procs : GetBranch(p)
    \/ \E p \in Procs : GetContent(p)
    \/ \E p \in Procs : UpdateResults(p)
    \/ \E p \in Procs : ProcessDeltas(p)

SpecPublish == InitPublish /\ [][NextPublish]_vars

(***************************************************************************)
(* The same publish with a publisher outside Procs at work: the write of   *)
(* invocation 1 may conflict and be tried again.                           *)
(***************************************************************************)
InitRetry ==
    /\ remoteBranch = TRUE
    /\ \E h \in StoredHistories : remoteFile = (IF h.entries = <<>> THEN NoFile ELSE [exists |-> TRUE, content |-> h, sha |-> 1])
    /\ thread = <<>>
    /\ commitComments = <<>>
    /\ clock = 3
    /\ otherWrites = 0
    /\ pc = [p \in Procs |-> IF p = 1 THEN "getBenchmarks" ELSE "done"]
    /\ \E o \in PublishOptionSets : options = [p \in Procs |-> o]
    /\ InitLocal

NextRetry ==
    \/ NextPublish
    \/ OtherPublish

SpecRetry == InitRetry /\ [][NextRetry]_vars

(***************************************************************************)
(* Three invocations publish concurrently and nobody else writes: each     *)
(* finds one result file for suite A; the options are the defaults or a    *)
(* cap of 1.                                                               *)
(***************************************************************************)
Invocations == {1, 2, 3}

ConcurrentOptions == {NoOptions, PublishOptions(1, <<>>, FALSE, FALSE)}

InitConcurrent ==
    /\ remoteBranch = TRUE
    /\ remoteFile = NoFile
    /\ thread = <<>>
    /\ commitComments = <<>>
    /\ clock = 1
    /\ otherWrites = MaxOther
    /\ pc = [p \in Invocations |-> "getBenchmarks"]
    /\ \E o \in ConcurrentOptions : options = [p \in Invocations |-> o]
    /\ paths = [p \in Invocations |-> <<>>]
    /\ benchmarks = [p \in Invocations |-> <<>>]
    /\ commit = [p \in Invocations |-> OtherCommit]
    /\ attempts = [p \in Invocations |-> 0]
    /\ data = [p \in Invocations |-> EmptyDocument]
    /\ sha = [p \in Invocations |-> 0]
    /\ merged = [p \in Invocations |-> EmptyDocument]
    /\ deltas = [p \in Invocations |-> <<>>]
    /\ regressions = [p \in Invocations |-> <<>>]
    /\ prs = [p \in Invocations |-> <<>>]
    /\ commentId = [p \in Invocations |-> 0]
    /\ failed = [p \in Invocations |-> NoMessage]
    /\ errors = [p \in Invocations |-> <<>>]
    /\ warnings = [p \in Invocations |-> <<>>]
    /\ ops = [p \in Invocations |-> <<>>]

ConcurrentDiscoveries == {<<FileA(350, 64)>>}

GetBenchmarksOfSuiteA(p) == \E found \in ConcurrentDiscoveries : Discover(p, found)

NextConcurrent ==
    \/ \E p \in Invocations : GetBenchmarksOfSuiteA(p)
    \/ \E p \in Invocations : GetCurrentCommit(p)
    \/ \E p \in Invocations : GetBranch(p)
    \/ \E p \in Invocations : GetContent(p)
    \/ \E p \in Invocations : UpdateResults(p)

SpecConcurrent == InitConcurrent /\ [][NextConcurrent]_vars

(***************************************************************************)
(* processDeltas on its own: invocation 1 has written the document and is  *)
(* about to evaluate one delta of suite A.                                 *)
(***************************************************************************)
Values == {Num(0), Num(100), Num(300), Num(310), Num(350), NaN, Null}
Bytes == {Undefined, Num(0), Num(64), Num(192), Num(200)}

Point(value, bytes) == [name |-> "A.m", value |-> value, unit |-> "ns", range |-> Undefined, bytesAllocated |-> bytes]

Points == {Point(v, b) : v \in Values, b \in Bytes}

DeltaPairs == {[current |-> c, previous |-> q] : c \in Points, q \in Points \cup {NoPoint}}

Thresholds == {Undefined, Num(1), Num(2)}

DeltaOptions ==
    {[maxItems |-> 0, name |-> <<>>, commentOnThreshold |-> FALSE, failOnThreshold |-> TRUE,
      failThresholdDuration |-> d, failThresholdMemory |-> m] : d \in Thresholds, m \in {Undefined, Num(1)}}

InitDeltas ==
    /\ remoteBranch = TRUE
    /\ remoteFile = NoFile
    /\ thread = <<>>
    /\ commitComments = <<>>
    /\ clock = 1
    /\ otherWrites = MaxOther
    /\ pc = [p \in Procs |-> IF p = 1 THEN "processDeltas" ELSE "done"]
    /\ \E o \in DeltaOptions : options = [p \in Procs |-> o]
    /\ \E d \in DeltaPairs : deltas = [p \in Procs |-> IF p = 1 THEN [s \in {Suite("A")} |-> <<d>>] ELSE <<>>]
    /\ paths = [p \in Procs |-> <<>>]
    /\ benchmarks = [p \in Procs |-> <<>>]
    /\ commit = [p \in Procs |-> CommitOf(p)]
    /\ attempts = [p \in Procs |-> 0]
    /\ data = [p \in Procs |-> EmptyDocument]
    /\ sha = [p \in Procs |-> 0]
    /\ merged = [p \in Procs |-> EmptyDocument]
    /\ regressions = [p \in Procs |-> <<>>]
    /\ prs = [p \in Procs |-> <<>>]
    /\ commentId = [p \in Procs |-> 0]
    /\ failed = [p \in Procs |-> NoMessage]
    /\ errors = [p \in Procs |-> <<>>]
    /\ warnings = [p \in Procs |-> <<>>]
    /\ ops = [p \in Procs |-> <<>>]

NextDeltas == \E p \in Procs : ProcessDeltas(p)

SpecDeltas == InitDeltas /\ [][NextDeltas]_vars

(***************************************************************************)
(* What the claims are stated with.                                        *)
(***************************************************************************)
\* how many operations of the log have the given name and result
Count(log, name, result) == Len(SelectSeq(log, LAMBDA o : o.op = name /\ o.result = result))

IsLast(log, name, result) == Len(log) > 0 /\ log[Len(log)].op = name /\ log[Len(log)].result = result

\* the last n elements of a sequence, all of them when it has no more than n
LastN(q, n) == IF Len(q) > n THEN [i \in 1..n |-> q[Len(q) - n + i]] ELSE q

\* q without its first k elements
DropFront(q, k) == [i \in 1..(Len(q) - k) |-> q[k + i]]

IsPrefix(q, r) == Len(q) <= Len(r) /\ \A i \in 1..Len(q) : q[i] = r[i]

\* the entries a document holds for a suite, none when it has no such suite
EntriesOf(document, s) == IF s \in DOMAIN document.entries THEN document.entries[s] ELSE <<>>

\* an entry carries the commit of the invocation that made it
MadeBy(entry, p) == entry.commit = CommitOf(p)

(***************************************************************************)
(* C1  Whatever the interleaving of publish invocations, a write the       *)
(* remote accepts loses no entry an earlier accepted write persisted:      *)
(* every suite stays, and its new sequence is its old one with entries     *)
(* added at the end, less entries dropped from the front only when the     *)
(* writer's cap is reached.                                                *)
(***************************************************************************)
GrowsAtEnd(old, new) ==
    \/ IsPrefix(old, new)
    \/ \E k \in 1..Len(old) :
        /\ IsPrefix(DropFront(old, k), new)
        /\ \E p \in Procs : options[p].maxItems # 0 /\ Len(new) = options[p].maxItems

NoEntryLostStep ==
    remoteFile' # remoteFile =>
        \A s \in DOMAIN remoteFile.content.entries :
            /\ s \in DOMAIN remoteFile'.content.entries
            /\ GrowsAtEnd(remoteFile.content.entries[s], remoteFile'.content.entries[s])

C1_NoEntryLost == [][NoEntryLostStep]_vars

\* an invocation wrote after a conflict and its entry follows another writer's
C1_Witness ==
    \E p \in Procs : \E s \in DOMAIN remoteFile.content.entries :
        LET suite == remoteFile.content.entries[s]
        IN  /\ attempts[p] > 0
            /\ IsLast(ops[p], "createOrUpdateFileContents", "ok")
            /\ Len(suite) > 1
            /\ MadeBy(suite[Len(suite)], p)
            /\ ~MadeBy(suite[1], p)

(***************************************************************************)
(* C2  A publish makes at most 3 read-merge-write cycles: nothing is read  *)
(* or written after the first accepted write, and when 3 writes have met   *)
(* a conflict the invocation has ended with the error that names the 3     *)
(* attempts, logged and signalled as a failure.                            *)
(***************************************************************************)
Reads(p) == Len(OpsNamed(ops[p], {"getContent"}))
Writes(p) == Len(OpsNamed(ops[p], {"createOrUpdateFileContents"}))
Conflicts(p) == Count(ops[p], "createOrUpdateFileContents", "409")

\* no read or write follows an accepted write
StopsAtAcceptedWrite(p) ==
    \A i \in 1..Len(ops[p]) :
        (ops[p][i].op = "createOrUpdateFileContents" /\ ops[p][i].result = "ok") =>
            \A j \in (i + 1)..Len(ops[p]) : ops[p][j].op \notin {"getBranch", "getContent", "createOrUpdateFileContents"}

C2_BoundedRetry ==
    \A p \in Procs :
        /\ Reads(p) <= 3
        /\ Writes(p) <= 3
        /\ Writes(p) <= Reads(p)
        /\ StopsAtAcceptedWrite(p)
        /\ Conflicts(p) = 3 =>
            /\ pc[p] = "done"
            /\ failed[p] = ExhaustedMessage
            /\ failed[p].n = 3
            /\ ExhaustedMessage \in {errors[p][i] : i \in 1..Len(errors[p])}

C2_Witness == \E p \in Procs : Conflicts(p) = 3 /\ failed[p] = ExhaustedMessage

(***************************************************************************)
(* mergeResults seen from outside: the stored document it was given, the   *)
(* entries the call makes for a suite, and the merged document.            *)
(***************************************************************************)
Stored == ReadRemote(remoteFile).data

\* the files of an invocation that go to suite s, in discovery order
FilesFor(p, s) == SelectSeq(benchmarks[p], LAMBDA result : SuiteNameOf(options[p], result) = s)

\* the entries invocation p appends to suite s in one merge
NewEntries(p, s) ==
    [i \in 1..Len(FilesFor(p, s)) |->
        [commit |-> commit[p], date |-> merged[p].lastUpdated, benches |-> Items(FilesFor(p, s)[i])]]

Touched(p, s) == Len(FilesFor(p, s)) > 0

Min(a, b) == IF a < b THEN a ELSE b

IsSuffix(q, r) == Len(q) <= Len(r) /\ \A i \in 1..Len(q) : q[i] = r[Len(r) - Len(q) + i]

(***************************************************************************)
(* C3 as stated: for every history document and every configured cap N,    *)
(* after mergeResults every suite of the merged document has at most N     *)
(* entries, the N most recently appended ones in their original order.     *)
(***************************************************************************)
C3_EverySuiteCapped ==
    \A p \in Procs :
        (pc[p] = "merged" /\ options[p].maxItems # 0) =>
            \A s \in DOMAIN merged[p].entries :
                /\ Len(merged[p].entries[s]) <= options[p].maxItems
                /\ merged[p].entries[s] = LastN(EntriesOf(Stored, s) \o NewEntries(p, s), options[p].maxItems)

(***************************************************************************)
(* C3 amended: after mergeResults with cap N >= 1, every suite that        *)
(* received an entry in this merge has at most N entries, namely the last  *)
(* min(N, total) of its stored entries followed by its new ones, in their  *)
(* original order; a suite that received none keeps all its stored         *)
(* entries, however many; and a cap of 0 caps nothing.                     *)
(***************************************************************************)
C3_TouchedSuitesCapped ==
    \A p \in Procs :
        pc[p] = "merged" =>
            /\ DOMAIN merged[p].entries = DOMAIN Stored.entries \cup {s \in {Suite("A"), Suite("B")} : Touched(p, s)}
            /\ \A s \in DOMAIN merged[p].entries :
                LET all == EntriesOf(Stored, s) \o NewEntries(p, s)
                IN  IF Touched(p, s) /\ options[p].maxItems # 0
                    THEN /\ Len(merged[p].entries[s]) <= options[p].maxItems
                         /\ merged[p].entries[s] = LastN(all, options[p].maxItems)
                    ELSE merged[p].entries[s] = all

\* a merge under a cap that evicted stored entries of one suite and left
\* another, longer than the cap, as it was
C3_Witness ==
    \E p \in Procs :
        /\ pc[p] = "merged"
        /\ options[p].maxItems = 2
        /\ Touched(p, Suite("A")) /\ ~Touched(p, Suite("B"))
        /\ Len(EntriesOf(Stored, Suite("A"))) = 3
        /\ Len(merged[p].entries[Suite("A")]) = 2
        /\ Len(EntriesOf(merged[p], Suite("B"))) = 3

(***************************************************************************)
(* C4  A suite that receives a new entry under cap N ends with the new     *)
(* entry last, is a tail of its stored entries followed by the new ones,   *)
(* and is cut to length N exactly when that sequence is longer than N:     *)
(* only the front is dropped.                                              *)
(***************************************************************************)
C4_AppendThenDropFront ==
    \A p \in Procs : \A s \in DOMAIN merged[p].entries :
        (pc[p] = "merged" /\ Touched(p, s) /\ options[p].maxItems # 0) =>
            LET all == EntriesOf(Stored, s) \o NewEntries(p, s)
                suite == merged[p].entries[s]
            IN  /\ IsSuffix(suite, all)
                /\ suite[Len(suite)] = NewEntries(p, s)[Len(NewEntries(p, s))]
                /\ Len(suite) = Min(Len(all), options[p].maxItems)

\* one entry appended to a full suite: the oldest stored entry is gone
C4_Witness ==
    \E p \in Procs :
        /\ pc[p] = "merged"
        /\ options[p].maxItems = 3
        /\ Len(FilesFor(p, Suite("A"))) = 1
        /\ Len(EntriesOf(Stored, Suite("A"))) = 3
        /\ merged[p].entries[Suite("A")] = Tail(EntriesOf(Stored, Suite("A"))) \o NewEntries(p, Suite("A"))

(***************************************************************************)
(* C5  Every attempt of the retry loop reads the document again: each      *)
(* conditional write of the log directly follows a read of the same        *)
(* invocation and carries the fingerprint that read returned, and while a  *)
(* write is pending the fingerprint held is the one of the latest read.    *)
(***************************************************************************)
WriteFollowsItsRead(log) ==
    \A i \in 1..Len(log) :
        log[i].op = "createOrUpdateFileContents" =>
            /\ i > 1
            /\ log[i - 1].op = "getContent"
            /\ log[i - 1].result \in {"ok", "404"}
            /\ log[i - 1].sha = log[i].sha

C5_FreshReadPerAttempt ==
    \A p \in Procs :
        /\ WriteFollowsItsRead(ops[p])
        /\ Reads(p) >= Writes(p)
        /\ pc[p] = "createOrUpdateFileContents" =>
            /\ ops[p][Len(ops[p])].op = "getContent"
            /\ ops[p][Len(ops[p])].sha = sha[p]
            /\ Reads(p) = attempts[p] + 1

\* a second attempt read another fingerprint than the first and wrote with it
C5_Witness ==
    \E p \in Procs :
        LET reads == OpsNamed(ops[p], {"getContent"})
        IN  /\ Len(reads) = 2
            /\ reads[1].sha # reads[2].sha
            /\ IsLast(ops[p], "createOrUpdateFileContents", "ok")
            /\ ops[p][Len(ops[p])].sha = reads[2].sha

(***************************************************************************)
(* C6  Whichever attempt succeeds, the first, the second or the third, the *)
(* document it persists is the one a publish succeeding at once on the     *)
(* document then stored would persist: the merge of that document with the *)
(* invocation's results, commit and options, as JSON.  No invocation runs  *)
(* more than 3 read-merge-write cycles.                                    *)
(***************************************************************************)
WroteNow(p) == ops'[p] # ops[p] /\ IsLast(ops'[p], "createOrUpdateFileContents", "ok")

\* what a publish of p persists when its first write is accepted
FirstAttemptDocument(p, now) == JsonDocument(mergeResults(ReadRemote(remoteFile).data, benchmarks[p], commit[p], now, options[p]))

ThirdAttemptAsFirstStep ==
    \A p \in Procs :
        WroteNow(p) =>
            /\ remoteFile'.content = FirstAttemptDocument(p, merged[p].lastUpdated)
            /\ Reads(p) <= 3
            /\ Writes(p) < 3

C6_ThirdAttemptAsFirst == [][ThirdAttemptAsFirstStep]_vars

\* two conflicts, then an accepted write
C6_Witness ==
    \E p \in Procs :
        /\ attempts[p] = 2
        /\ Conflicts(p) = 2
        /\ Reads(p) = 3
        /\ IsLast(ops[p], "createOrUpdateFileContents", "ok")

(***************************************************************************)
(* C7  processDeltas records a duration regression for a pair exactly when *)
(* the previous point is there, its value is not 0 and                     *)
(* (current - previous) / previous is strictly greater than the duration   *)
(* threshold (2 when not set): with 2, 100 -> 310 is recorded and          *)
(* 100 -> 300 is not.  The quotient is JavaScript's: NaN on either side    *)
(* exceeds nothing, and a value read back as null counts as 0 in the       *)
(* arithmetic while it is not === 0.                                       *)
(***************************************************************************)
\* (current - previous) / previous > threshold, on the values themselves
RatioExceeds(current, previous, threshold) ==
    IF IsNaN(current) \/ IsNaN(previous) THEN FALSE
    ELSE LET c == IF current.t = "number" THEN current.v ELSE 0
             q == IF previous.t = "number" THEN previous.v ELSE 0
         IN  IF q > 0 THEN c - q > threshold * q
             ELSE IF q < 0 THEN c - q < threshold * q
             ELSE c > 0

DurationRecords(rs) == SelectSeq(rs, LAMBDA r : r.type = "duration")

C7_DurationStrictlyAbove ==
    \A p \in Procs :
        (pc[p] = "done" /\ DOMAIN deltas[p] # {}) =>
            \A s \in DOMAIN deltas[p] :
                LET delta == deltas[p][s][1]
                    recorded == DurationRecords(regressions[p][s])
                    expected == /\ delta.previous # NoPoint
                                /\ delta.previous.value # Num(0)
                                /\ RatioExceeds(delta.current.value, delta.previous.value, ThresholdOf(options[p].failThresholdDuration))
                IN  /\ Len(recorded) = (IF expected THEN 1 ELSE 0)
                    /\ expected => /\ recorded[1].current = delta.current.value
                                   /\ recorded[1].previous = delta.previous.value
                    /\ (delta.previous # NoPoint /\ delta.previous.value = Num(100) /\ options[p].failThresholdDuration \in {Undefined, Num(2)}) =>
                            /\ delta.current.value = Num(310) => Len(recorded) = 1
                            /\ delta.current.value = Num(300) => Len(recorded) = 0

\* 100 -> 310 under the default threshold: recorded
C7_Witness ==
    \E p \in Procs :
        /\ pc[p] = "done"
        /\ options[p].failThresholdDuration = Undefined
        /\ DOMAIN deltas[p] = {Suite("A")}
        /\ deltas[p][Suite("A")][1].previous # NoPoint
        /\ deltas[p][Suite("A")][1].previous.value = Num(100)
        /\ deltas[p][Suite("A")][1].current.value = Num(310)
        /\ Len(DurationRecords(regressions[p][Suite("A")])) = 1

(***************************************************************************)
(* C8  When processDeltas found a regression and failOnThreshold is set,   *)
(* the invocation ends signalling failure; and the failure for regressions *)
(* is signalled only when the document has been written and, with          *)
(* commentOnThreshold set, the comment has been posted.                    *)
(***************************************************************************)
Posted(p) == \E i \in 1..Len(ops[p]) : ops[p][i].op \in PostingOps /\ ops[p][i].result = "ok"

C8_FailureAfterWriteAndComment ==
    \A p \in Procs :
        /\ (pc[p] = "done" /\ HasRegressions(regressions[p]) /\ options[p].failOnThreshold) => failed[p] # NoMessage
        /\ failed[p] = RegressedMessage =>
            /\ pc[p] = "done"
            /\ HasRegressions(regressions[p])
            /\ Count(ops[p], "createOrUpdateFileContents", "ok") = 1
            /\ remoteFile.exists
            /\ options[p].commentOnThreshold => Posted(p)

\* a regression, commented, then reported as failure
C8_Witness ==
    \E p \in Procs :
        /\ failed[p] = RegressedMessage
        /\ options[p].commentOnThreshold
        /\ options[p].failOnThreshold
        /\ IsLast(ops[p], "createComment", "ok")

(***************************************************************************)
(* C9  A failure signalled for regressions comes with an empty error log,  *)
(* and an invocation that has written the document and found no regression *)
(* ends with neither a failure signal nor a logged error.                  *)
(***************************************************************************)
C9_RegressionIsNotAnError ==
    \A p \in Procs :
        /\ failed[p] = RegressedMessage => errors[p] = <<>>
        /\ (pc[p] = "done" /\ Count(ops[p], "createOrUpdateFileContents", "ok") = 1 /\ ~HasRegressions(regressions[p])) =>
            /\ failed[p] = NoMessage
            /\ errors[p] = <<>>
        /\ errors[p] # <<>> => failed[p] \notin {NoMessage, RegressedMessage}

\* a run that failed for regressions and logged warnings only
C9_Witness ==
    \E p \in Procs :
        /\ pc[p] = "done"
        /\ failed[p] = RegressedMessage
        /\ errors[p] = <<>>
        /\ Len(warnings[p]) > 0

(***************************************************************************)
(* C10  updateResults answers false, with a warning and no error, exactly  *)
(* when the remote reports the conflict 409: the loop then counts one more *)
(* attempt.  Any other fault of the write ends the invocation with that    *)
(* error, and no read or write follows it.                                 *)
(***************************************************************************)
WriteFaultIsFinal(p) ==
    \A i \in 1..Len(ops[p]) :
        (ops[p][i].op = "createOrUpdateFileContents" /\ ops[p][i].result = "fault") =>
            /\ i = Len(ops[p])
            /\ pc[p] = "done"
            /\ failed[p] = FaultMessage
            /\ FaultMessage \in {errors[p][j] : j \in 1..Len(errors[p])}

ConflictIsRetried(p) ==
    \A i \in 1..Len(ops[p]) :
        (ops[p][i].op = "createOrUpdateFileContents" /\ ops[p][i].result = "409" /\ i < Len(ops[p])) =>
            ops[p][i + 1].op = "getBranch"

C10_OnlyConflictReturnsFalse ==
    \A p \in Procs :
        /\ attempts[p] = Conflicts(p)
        /\ Len(warnings[p]) >= Conflicts(p)
        /\ (Conflicts(p) \in 1..2 /\ IsLast(ops[p], "createOrUpdateFileContents", "409")) =>
            /\ errors[p] = <<>>
            /\ failed[p] = NoMessage
            /\ pc[p] = "getBranch"
        /\ ConflictIsRetried(p)
        /\ WriteFaultIsFinal(p)

\* one write answered with a conflict and retried, the next with a fault
C10_Witness ==
    \E p \in Procs :
        /\ Conflicts(p) = 1
        /\ IsLast(ops[p], "createOrUpdateFileContents", "fault")
        /\ failed[p] = FaultMessage

(***************************************************************************)
(* C11  A read that finds no file at the path of an existing branch is not *)
(* an error: getCurrentResults answers a document with no entries and      *)
(* lastUpdated 0, and no fingerprint, and the invocation goes on to merge  *)
(* and write.  Any other fault of the read ends the invocation with that   *)
(* error.                                                                  *)
(***************************************************************************)
ReadFaultIsFinal(p) ==
    \A i \in 1..Len(ops[p]) :
        (ops[p][i].op = "getContent" /\ ops[p][i].result = "fault") =>
            /\ i = Len(ops[p])
            /\ pc[p] = "done"
            /\ failed[p] = FaultMessage
            /\ FaultMessage \in {errors[p][j] : j \in 1..Len(errors[p])}

C11_ReadNotFoundIsEmpty ==
    \A p \in Procs :
        /\ IsLast(ops[p], "getContent", "404") =>
            /\ pc[p] = "createOrUpdateFileContents"
            /\ sha[p] = 0
            /\ data[p].lastUpdated = 0
            /\ data[p].repoUrl = RepoUrl
            /\ failed[p] = NoMessage
            /\ errors[p] = <<>>
            /\ \A s \in DOMAIN merged[p].entries :
                /\ Touched(p, s)
                /\ \A i \in 1..Len(merged[p].entries[s]) : MadeBy(merged[p].entries[s][i], p)
        /\ ReadFaultIsFinal(p)

\* the file was not found, and the write that followed created it
C11_Witness ==
    \E p \in Procs :
        /\ Count(ops[p], "getContent", "404") = 1
        /\ IsLast(ops[p], "createOrUpdateFileContents", "ok")
        /\ ops[p][Len(ops[p])].sha = 0
        /\ remoteFile.exists

(***************************************************************************)
(* C12  When the target branch is not found it is created from the tip of  *)
(* the default branch before the file is looked up: the file lookup is     *)
(* made only while the branch exists, directly after a branch lookup that  *)
(* found it or a create-ref that succeeded; and the repository lookup, the *)
(* default-branch lookup and the create-ref are issued, in this order,     *)
(* only after a branch lookup of the same read answered not-found.         *)
(***************************************************************************)
Follows(log, i, name, result) == i > 1 /\ log[i - 1].op = name /\ log[i - 1].result = result

BootstrapInOrder(log) ==
    \A i \in 1..Len(log) :
        /\ log[i].op = "getRepo" => Follows(log, i, "getBranch", "404")
        /\ log[i].op = "getDefaultBranch" => Follows(log, i, "getRepo", "ok")
        /\ log[i].op = "createRef" => Follows(log, i, "getDefaultBranch", "ok")
        /\ log[i].op = "getContent" => Follows(log, i, "getBranch", "ok") \/ Follows(log, i, "createRef", "ok")
        /\ (log[i].op = "getBranch" /\ log[i].result = "ok" /\ i < Len(log)) => log[i + 1].op = "getContent"

C12_BranchCreatedBeforeLookup ==
    \A p \in Procs :
        /\ BootstrapInOrder(ops[p])
        /\ pc[p] = "getContent" => remoteBranch
        /\ pc[p] \in {"getRepo", "getDefaultBranch", "createRef"} => Count(ops[p], "getBranch", "404") > 0
        /\ Count(ops[p], "createRef", "ok") <= Count(ops[p], "getBranch", "404")

\* one invocation created the branch and read the file; the other found the
\* branch there and made no bootstrap call
C12_Witness ==
    \E p, q \in Procs :
        /\ Count(ops[p], "createRef", "ok") = 1
        /\ Count(ops[p], "getContent", "404") = 1
        /\ Count(ops[q], "getBranch", "ok") = 1
        /\ Len(OpsNamed(ops[q], {"getRepo", "getDefaultBranch", "createRef"})) = 0
        /\ Len(OpsNamed(ops[q], {"getContent"})) = 1

(***************************************************************************)
(* C13  An invocation that discovers no result file warns and ends at      *)
(* once: it signals no failure, logs no error and has issued no remote     *)
(* operation, and the step that ends it changes nothing at the remote.     *)
(***************************************************************************)
Warned(p, text) == \E i \in 1..Len(warnings[p]) : warnings[p][i] = text

NothingFoundStep ==
    \A p \in Procs :
        (~Warned(p, NothingFound) /\ Warned(p, NothingFound)') =>
            /\ remoteBranch' = remoteBranch
            /\ remoteFile' = remoteFile
            /\ thread' = thread
            /\ commitComments' = commitComments
            /\ pc'[p] = "done"
            /\ ops'[p] = <<>>
            /\ failed'[p] = NoMessage
            /\ errors'[p] = <<>>
            /\ warnings'[p] = <<NothingFound>>

NothingFoundStays ==
    \A p \in Procs :
        Warned(p, NothingFound) =>
            /\ pc'[p] = "done"
            /\ ops'[p] = <<>>
            /\ failed'[p] = NoMessage
            /\ errors'[p] = <<>>
            /\ benchmarks'[p] = <<>>

C13_NothingFoundIsClean == [][NothingFoundStep /\ NothingFoundStays]_vars

\* one invocation found nothing and ended while the other published
C13_Witness ==
    \E p, q \in Procs :
        /\ Warned(p, NothingFound)
        /\ pc[p] = "done"
        /\ ops[p] = <<>>
        /\ failed[p] = NoMessage
        /\ IsLast(ops[q], "createOrUpdateFileContents", "ok")

(***************************************************************************)
(* C14  An invocation that found a result file that is malformed JSON or   *)
(* lacks Title or Benchmarks ends failed with the error that names that    *)
(* file and the expected export format, and has written nothing.           *)
(***************************************************************************)
NotBenchmarkDotNet(file) == ~file.ok \/ file.missing # ""

C14_BadFileRejected ==
    \A p \in Procs :
        (pc[p] = "done" /\ \E i \in 1..Len(paths[p]) : NotBenchmarkDotNet(paths[p][i])) =>
            /\ \E i \in 1..Len(paths[p]) : NotBenchmarkDotNet(paths[p][i]) /\ failed[p] = ParseMessage(i)
            /\ Writes(p) = 0
            /\ Reads(p) = 0

\* malformed JSON alone is rejected with the error that names the file
C14_MalformedJsonRejected ==
    \A p \in Procs :
        (pc[p] = "done" /\ \E i \in 1..Len(paths[p]) : ~paths[p][i].ok) =>
            /\ failed[p] = ParseMessage(FirstRejected(paths[p]))
            /\ ops[p] = <<>>

(***************************************************************************)
(* C15  Regression evaluations that run one after the other leave exactly  *)
(* one comment with the watermark on the pull-request thread: the first    *)
(* one that targets the thread creates it, every later one updates that    *)
(* comment in place, and no other comment of the thread is touched.        *)
(***************************************************************************)
Watermarked(comments) == SelectSeq(comments, LAMBDA c : c.watermark)

ThreadPosts(p) == Len(OpsNamed(ops[p], {"createComment", "updateComment"}))

RECURSIVE SumOver(_, _)
SumOver(f, S) == IF S = {} THEN 0 ELSE LET x == CHOOSE y \in S : TRUE IN f[x] + SumOver(f, S \ {x})

UpsertStep ==
    thread' # thread =>
        \/ /\ Len(Watermarked(thread)) = 0
           /\ Len(thread') = Len(thread) + 1
           /\ SubSeq(thread', 1, Len(thread)) = thread
           /\ thread'[Len(thread')].watermark
        \/ /\ Len(Watermarked(thread)) = 1
           /\ Len(thread') = Len(thread)
           /\ \A i \in 1..Len(thread) :
                /\ thread'[i].id = thread[i].id
                /\ thread'[i].watermark = thread[i].watermark
                /\ ~thread[i].watermark => thread'[i] = thread[i]

OneWatermarkedComment ==
    /\ Len(Watermarked(thread)) <= 1
    /\ SumOver([p \in Procs |-> ThreadPosts(p)], Procs) > 0 => Len(Watermarked(thread)) = 1
    /\ SumOver([p \in Procs |-> Count(ops[p], "createComment", "ok")], Procs) = Len(Watermarked(thread))

C15_UpsertIsIdempotent == [][UpsertStep /\ OneWatermarkedComment']_vars

\* three evaluations on the thread: one created the comment, two updated it
C15_Witness ==
    /\ Len(Watermarked(thread)) = 1
    /\ SumOver([p \in Procs |-> Count(ops[p], "createComment", "ok")], Procs) = 1
    /\ SumOver([p \in Procs |-> Count(ops[p], "updateComment", "ok")], Procs) = 2
    /\ \E i \in 1..Len(thread) : ~thread[i].watermark

(***************************************************************************)
(* C16 as stated: the regression comment goes to the pull-request thread   *)
(* if at least one pull request of the commit exists and is not locked,    *)
(* and to the commit otherwise.                                            *)
(***************************************************************************)
PostedOnThread(p) == pc[p] = "done" /\ (IsLast(ops[p], "createComment", "ok") \/ IsLast(ops[p], "updateComment", "ok"))
PostedOnCommit(p) == pc[p] = "done" /\ IsLast(ops[p], "createCommitComment", "ok")

C16_ThreadIfAnyUnlocked ==
    \A p \in Procs :
        (PostedOnThread(p) \/ PostedOnCommit(p)) =>
            (PostedOnThread(p) <=> \E i \in 1..Len(prs[p]) : ~prs[p][i].locked)

(***************************************************************************)
(* C16 amended: the regression comment goes to the thread of the first     *)
(* pull request listed for the commit when there is one and it is not      *)
(* locked; otherwise, also when a pull request listed after it is not      *)
(* locked, it is posted as a commit comment.                               *)
(***************************************************************************)
C16_ThreadIfFirstUnlocked ==
    \A p \in Procs :
        /\ (PostedOnThread(p) \/ PostedOnCommit(p)) =>
            (PostedOnThread(p) <=> (Len(prs[p]) > 0 /\ ~prs[p][1].locked))
        /\ pc[p] \in {"listComments", "createComment", "updateComment"} => (Len(prs[p]) > 0 /\ prs[p][1] = PullRequest(1, FALSE))
        /\ pc[p] = "createCommitComment" => (prs[p] = <<>> \/ prs[p][1].locked)

\* the first pull request is locked, the second is not: a commit comment
C16_Witness ==
    \E p \in Procs :
        /\ prs[p] = <<PullRequest(1, TRUE), PullRequest(2, FALSE)>>
        /\ PostedOnCommit(p)
        /\ commitComments # <<>>

(***************************************************************************)
(* C17  After the accepted write, DeltaPairs exist only for the suites     *)
(* that received an entry in this publish: a suite of the document that    *)
(* the invocation did not touch has no DeltaPair and no RegressionRecord.  *)
(***************************************************************************)
WroteDocument(p) == Count(ops[p], "createOrUpdateFileContents", "ok") = 1

C17_DeltasOnlyForTouchedSuites ==
    \A p \in Procs :
        WroteDocument(p) =>
            /\ \A s \in DOMAIN deltas[p] : Len(deltas[p][s]) > 0 => Touched(p, s)
            /\ \A s \in DOMAIN regressions[p] : Len(regressions[p][s]) > 0 => Touched(p, s)

(***************************************************************************)
(* C18  Every DeltaPair of a suite is made of a point of the suite's       *)
(* newest entry and the point of the same name of the second-newest entry, *)
(* so the suite has at least two entries.                                  *)
(***************************************************************************)
PairsNewestWithSecondNewest(p) ==
    \A s \in DOMAIN deltas[p] :
        LET suite == merged[p].entries[s]
        IN  \A i \in 1..Len(deltas[p][s]) :
                /\ Len(suite) >= 2
                /\ \E k \in 1..Len(suite[Len(suite)].benches) : suite[Len(suite)].benches[k] = deltas[p][s][i].current
                /\ \E k \in 1..Len(suite[Len(suite) - 1].benches) : suite[Len(suite) - 1].benches[k] = deltas[p][s][i].previous
                /\ deltas[p][s][i].previous.name = deltas[p][s][i].current.name

\* the suite held no entry before this publish: every entry of the merged
\* suite was appended by this invocation and the cap dropped none
FirstPublish(p, s) ==
    /\ Touched(p, s)
    /\ merged[p].entries[s] = NewEntries(p, s)
    /\ options[p].maxItems = 0 \/ Len(NewEntries(p, s)) < options[p].maxItems

Evaluated(p, s) == WroteDocument(p) /\ pc[p] = "done" /\ s \in DOMAIN regressions[p]

\* C18 as stated: the first publish of a suite never yields a regression for it.
C18_FirstPublishNeverRegresses ==
    \A p \in Procs :
        WroteDocument(p) =>
            /\ PairsNewestWithSecondNewest(p)
            /\ \A s \in DOMAIN merged[p].entries :
                   FirstPublish(p, s) /\ Evaluated(p, s) => regressions[p][s] = <<>>

(***************************************************************************)
(* C18 amended: pairs are made as above, and the first publish of a suite  *)
(* yields no DeltaPair and no regression for it when exactly one           *)
(* discovered file maps to the suite.                                      *)
(***************************************************************************)
C18_FirstPublishOfOneFile ==
    \A p \in Procs :
        WroteDocument(p) =>
            /\ PairsNewestWithSecondNewest(p)
            /\ \A s \in DOMAIN merged[p].entries :
                   FirstPublish(p, s) /\ Len(FilesFor(p, s)) = 1 /\ Evaluated(p, s) =>
                       deltas[p][s] = <<>> /\ regressions[p][s] = <<>>

C18_Witness ==
    \E p \in Procs : \E s, t \in DOMAIN merged[p].entries :
        /\ Evaluated(p, s) /\ Evaluated(p, t)
        /\ Len(deltas[p][s]) > 0 /\ Touched(p, s)
        /\ FirstPublish(p, t) /\ Len(FilesFor(p, t)) = 1

(***************************************************************************)
(* C19  Memory is evaluated independently of duration: after processDeltas *)
(* every DeltaPair whose current and previous points both carry a          *)
(* bytes-allocated figure has a memory record exactly when                 *)
(* (current bytes - previous bytes) / previous bytes exceeds the memory     *)
(* threshold, whatever the duration check gave, and a pair has at most two *)
(* records.                                                                *)
(***************************************************************************)
MemoryRecords(rs) == SelectSeq(rs, LAMBDA r : r.type = "memory")

CarriesBytes(point) == point # NoPoint /\ point.bytesAllocated.t = "number"

MemoryExceeds(delta, opts) ==
    RatioExceeds(delta.current.bytesAllocated, delta.previous.bytesAllocated, ThresholdOf(opts.failThresholdMemory))

C19_MemoryWheneverBothCarryBytes ==
    \A p \in Procs :
        (pc[p] = "done" /\ DOMAIN deltas[p] # {}) =>
            \A s \in DOMAIN deltas[p] :
                LET delta == deltas[p][s][1]
                    recorded == MemoryRecords(regressions[p][s])
                IN  /\ Len(regressions[p][s]) <= 2
                    /\ (CarriesBytes(delta.current) /\ CarriesBytes(delta.previous)) =>
                           Len(recorded) = (IF MemoryExceeds(delta, options[p]) THEN 1 ELSE 0)

(***************************************************************************)
(* C19 amended: for every DeltaPair that is not skipped (its previous      *)
(* point is present with a value other than zero) and whose current and    *)
(* previous points both carry a bytes-allocated figure other than zero, a  *)
(* memory record is produced exactly when the memory ratio exceeds the     *)
(* memory threshold, whatever the duration check gave; every other pair    *)
(* has no memory record; a pair has at most one record of each type.       *)
(***************************************************************************)
CarriesNonZeroBytes(point) == CarriesBytes(point) /\ point.bytesAllocated.v # 0

C19_MemoryWhenEvaluated ==
    \A p \in Procs :
        (pc[p] = "done" /\ DOMAIN deltas[p] # {}) =>
            \A s \in DOMAIN deltas[p] :
                LET delta == deltas[p][s][1]
                    recorded == MemoryRecords(regressions[p][s])
                    evaluated == /\ delta.previous # NoPoint
                                 /\ delta.previous.value # Num(0)
                                 /\ CarriesNonZeroBytes(delta.current)
                                 /\ CarriesNonZeroBytes(delta.previous)
                    expected == evaluated /\ MemoryExceeds(delta, options[p])
                IN  /\ Len(recorded) = (IF expected THEN 1 ELSE 0)
                    /\ Len(DurationRecords(regressions[p][s])) <= 1
                    /\ Len(regressions[p][s]) = Len(recorded) + Len(DurationRecords(regressions[p][s]))
                    /\ expected => /\ recorded[1].current = delta.current.bytesAllocated
                                   /\ recorded[1].previous = delta.previous.bytesAllocated

\* 100 ns -> 350 ns regresses and 64 bytes -> 200 bytes regresses: two records
C19_Witness ==
    \E p \in Procs :
        /\ pc[p] = "done"
        /\ DOMAIN deltas[p] = {Suite("A")}
        /\ deltas[p][Suite("A")][1].previous # NoPoint
        /\ deltas[p][Suite("A")][1].previous.value = Num(100)
        /\ deltas[p][Suite("A")][1].current.value = Num(350)
        /\ deltas[p][Suite("A")][1].previous.bytesAllocated = Num(64)
        /\ deltas[p][Suite("A")][1].current.bytesAllocated = Num(200)
        /\ Len(DurationRecords(regressions[p][Suite("A")])) = 1
        /\ Len(MemoryRecords(regressions[p][Suite("A")])) = 1

(***************************************************************************)
(* C20  A DeltaPair whose previous point is absent or has value zero is    *)
(* skipped by processDeltas: it yields no RegressionRecord of either type, *)
(* no regression warning, and the invocation does not fail for it although *)
(* fail-on-threshold is set.                                               *)
(***************************************************************************)
PreviousAbsentOrZero(delta) == delta.previous = NoPoint \/ delta.previous.value = Num(0)

C20_AbsentOrZeroPreviousSkipped ==
    \A p \in Procs :
        (pc[p] = "done" /\ DOMAIN deltas[p] # {}) =>
            \A s \in DOMAIN deltas[p] :
                PreviousAbsentOrZero(deltas[p][s][1]) =>
                    /\ regressions[p][s] = <<>>
                    /\ ~HasRegressions(regressions[p])
                    /\ failed[p] = NoMessage
                    /\ warnings[p] = <<>>

\* a previous value of 0 with 350 ns now and 64 bytes -> 200 bytes: skipped
C20_Witness ==
    \E p \in Procs :
        /\ pc[p] = "done"
        /\ options[p].failOnThreshold
        /\ DOMAIN deltas[p] = {Suite("A")}
        /\ deltas[p][Suite("A")][1].previous # NoPoint
        /\ deltas[p][Suite("A")][1].previous.value = Num(0)
        /\ deltas[p][Suite("A")][1].current.value = Num(350)
        /\ deltas[p][Suite("A")][1].previous.bytesAllocated = Num(64)
        /\ deltas[p][Suite("A")][1].current.bytesAllocated = Num(200)
        /\ regressions[p][Suite("A")] = <<>>

(***************************************************************************)
(* C21  An invocation asks for the commit once, as its first remote call   *)
(* and so before every read and write of the retry loop, and every entry   *)
(* it appends, in the first attempt as in a retry, carries that commit;    *)
(* the entries of the remote document carry the commit of the publisher    *)
(* that made them.                                                         *)
(***************************************************************************)
CommitFetches(p) == Len(OpsNamed(ops[p], {"getCommit"}))

FetchedOnceAndFirst(p) ==
    /\ CommitFetches(p) <= 1
    /\ \A i \in 1..Len(ops[p]) : ops[p][i].op = "getCommit" <=> i = 1
    /\ Len(ops[p]) > 1 => ops[p][1].result = "ok" /\ commit[p] = CommitOf(p)

\* the entries the last merge of p appended carry the commit p fetched
AppendedCarryCommit(p) ==
    \A s \in DOMAIN merged[p].entries :
        \A i \in 1..Len(merged[p].entries[s]) :
            i > Len(merged[p].entries[s]) - Len(FilesFor(p, s)) => merged[p].entries[s][i].commit = commit[p]

C21_CommitFetchedOnce ==
    /\ \A p \in Procs :
        /\ FetchedOnceAndFirst(p)
        /\ Reads(p) >= 1 => AppendedCarryCommit(p)
    /\ \A s \in DOMAIN Stored.entries : \A i \in 1..Len(Stored.entries[s]) :
        \/ Stored.entries[s][i].commit = OtherCommit
        \/ \E p \in Procs : Stored.entries[s][i].commit = commit[p] /\ CommitFetches(p) = 1

\* a third attempt whose write is accepted: one fetch, three reads
C21_Witness ==
    \E p \in Procs :
        /\ CommitFetches(p) = 1
        /\ Reads(p) = 3
        /\ Conflicts(p) = 2
        /\ IsLast(ops[p], "createOrUpdateFileContents", "ok")
        /\ \E s \in DOMAIN Stored.entries : Stored.entries[s][Len(Stored.entries[s])].commit = CommitOf(p)

(***************************************************************************)
(* C22  mergeResults leaves every suite that no new run targets as it was: *)
(* the suite is still in the merged document and its entry sequence there  *)
(* equals its entry sequence in the stored document, under every cap.      *)
(***************************************************************************)
C22_UntargetedSuitesUntouched ==
    \A p \in Procs :
        pc[p] = "merged" =>
            \A s \in DOMAIN Stored.entries :
                ~Touched(p, s) =>
                    /\ s \in DOMAIN merged[p].entries
                    /\ merged[p].entries[s] = Stored.entries[s]

\* suite B holds two entries, the cap is 1 and the files all go to suite A
C22_Witness ==
    \E p \in Procs :
        /\ pc[p] = "merged"
        /\ options[p].maxItems = 1
        /\ Touched(p, Suite("A")) /\ ~Touched(p, Suite("B"))
        /\ Len(EntriesOf(Stored, Suite("B"))) = 2
        /\ EntriesOf(merged[p], Suite("B")) = EntriesOf(Stored, Suite("B"))

(***************************************************************************)
(* C23  When several discovered runs go to the same suite in one merge,    *)
(* each appends its own entry and the entries stand in discovery order:    *)
(* the suite ends with one entry per run, the run discovered last being    *)
(* last, as far as the cap keeps them; with no cap the suite grows by the  *)
(* number of runs.                                                         *)
(***************************************************************************)
C23_OneEntryPerRunInDiscoveryOrder ==
    \A p \in Procs :
        pc[p] = "merged" =>
            \A s \in DOMAIN merged[p].entries :
                LET suite == merged[p].entries[s]
                    files == FilesFor(p, s)
                IN  /\ \A k \in 0..(Len(files) - 1) :
                           k < Len(suite) => suite[Len(suite) - k].benches = Items(files[Len(files) - k])
                    /\ options[p].maxItems = 0 => Len(suite) = Len(EntriesOf(Stored, s)) + Len(files)
                    /\ options[p].maxItems # 0 /\ Len(files) > 0 =>
                           Len(suite) = Min(Len(EntriesOf(Stored, s)) + Len(files), options[p].maxItems)

\* two runs with different titles and values go to suite A under the override
C23_Witness ==
    \E p \in Procs :
        /\ pc[p] = "merged"
        /\ options[p].name = Suite("A")
        /\ benchmarks[p] = <<FileB, FileA2>>
        /\ Len(merged[p].entries[Suite("A")]) >= 2
        /\ merged[p].entries[Suite("A")][Len(merged[p].entries[Suite("A")])].benches = Items(FileA2)
        /\ merged[p].entries[Suite("A")][Len(merged[p].entries[Suite("A")]) - 1].benches = Items(FileB)

(***************************************************************************)
(* C24  With comment-on-threshold and fail-on-threshold both left at their *)
(* default, false, publish evaluates no regression: the invocation holds   *)
(* no RegressionRecord, warns of no regression, issues no comment          *)
(* operation and never fails for a regression, whatever the values are.    *)
(***************************************************************************)
BothAtDefault(p) == ~options[p].commentOnThreshold /\ ~options[p].failOnThreshold

C24_NoEvaluationByDefault ==
    \A p \in Procs :
        BothAtDefault(p) =>
            /\ regressions[p] = <<>>
            /\ failed[p] # RegressedMessage
            /\ OpsNamed(ops[p], CommentOps) = <<>>
            /\ \A i \in 1..Len(warnings[p]) : warnings[p][i] \in {NothingFound, "Failed to create or update"}
            /\ pc[p] \notin {"processDeltas"} \cup CommentOps

\* the write is accepted with 350 ns after a stored 100 ns, and publish ends
C24_Witness ==
    \E p \in Procs :
        /\ BothAtDefault(p)
        /\ pc[p] = "done"
        /\ IsLast(ops[p], "createOrUpdateFileContents", "ok")
        /\ Len(merged[p].entries[Suite("A")]) >= 2
        /\ merged[p].entries[Suite("A")][Len(merged[p].entries[Suite("A")])].benches[1].value = Num(350)
        /\ merged[p].entries[Suite("A")][Len(merged[p].entries[Suite("A")]) - 1].benches[1].value = Num(100)
        /\ failed[p] = NoMessage

(***************************************************************************)
(* C25  Every fatal condition ends the run with a logged error and with    *)
(* the failure signal carrying the error's message: a file that does not   *)
(* parse, three conflicts in a row, and a remote fault that is neither a   *)
(* conflict of the write nor a not-found of the read or of the branch      *)
(* lookup.                                                                 *)
(***************************************************************************)
Rejected(p) == \E i \in 1..Len(paths[p]) : ~paths[p][i].ok

Exhausted(p) == Conflicts(p) = maxRetries

Faulted(p) == Len(ops[p]) > 0 /\ ops[p][Len(ops[p])].result = "fault"

\* the run is over, the error is logged and setFailed carries its message
EndsFatally(p, message) ==
    /\ pc[p] = "done"
    /\ failed[p] = message
    /\ \E i \in 1..Len(errors[p]) : errors[p][i] = message

C25_FatalIsLoggedAndSignalled ==
    \A p \in Procs :
        /\ Rejected(p) => EndsFatally(p, ParseMessage(FirstRejected(paths[p])))
        /\ Exhausted(p) => EndsFatally(p, ExhaustedMessage)
        /\ Faulted(p) => EndsFatally(p, FaultMessage)
        /\ failed[p] \notin {NoMessage, RegressedMessage} => Rejected(p) \/ Exhausted(p) \/ Faulted(p)

\* one invocation ends on a fault of its write, the other on a file that
\* does not parse
C25_Witness ==
    \E p, q \in Procs :
        /\ IsLast(ops[p], "createOrUpdateFileContents", "fault")
        /\ EndsFatally(p, FaultMessage)
        /\ Rejected(q)
        /\ EndsFatally(q, ParseMessage(FirstRejected(paths[q])))

(***************************************************************************)
(* C26  Two consecutive publishes to the same suite, the mean of a         *)
(* same-named benchmark in the second being 3.5 times its mean in the      *)
(* first (100 ns, then 350 ns), the duration threshold at its default: the *)
(* second publish reports failure to the caller.                           *)
(***************************************************************************)
HoldsPoint(entry, name, mean) == \E i \in 1..Len(entry.benches) : entry.benches[i].name = name /\ entry.benches[i].value = Num(mean)

\* the stored suite A ends with A.m at 100 ns and the invocation publishes
\* one file, which goes to suite A with A.m at 350 ns
RiseOverStored(p) ==
    /\ Len(EntriesOf(Stored, Suite("A"))) > 0
    /\ HoldsPoint(Stored.entries[Suite("A")][Len(Stored.entries[Suite("A")])], "A.m", 100)
    /\ Len(benchmarks[p]) = 1
    /\ SuiteNameOf(options[p], benchmarks[p][1]) = Suite("A")
    /\ Items(benchmarks[p][1])[1].name = "A.m"
    /\ Items(benchmarks[p][1])[1].value = Num(350)
    /\ options[p].failThresholdDuration = Undefined

\* the deltas hold the pair of A.m at 350 ns with A.m at 100 ns
RisePaired(p) ==
    /\ Suite("A") \in DOMAIN deltas[p]
    /\ \E i \in 1..Len(deltas[p][Suite("A")]) :
        /\ deltas[p][Suite("A")][i].current.name = "A.m"
        /\ deltas[p][Suite("A")][i].current.value = Num(350)
        /\ deltas[p][Suite("A")][i].previous.value = Num(100)

\* the write of this step is accepted
AcceptedNow(p) == pc[p] = "createOrUpdateFileContents" /\ ~WroteDocument(p) /\ WroteDocument(p)'

C26_SecondPublishFails ==
    /\ [][\A p \in Procs : (AcceptedNow(p) /\ RiseOverStored(p)) => (pc'[p] = "processDeltas" /\ RisePaired(p)')]_vars
    /\ [](\A p \in Procs : (pc[p] = "done" /\ WroteDocument(p) /\ RisePaired(p)) => failed[p] = RegressedMessage)

(***************************************************************************)
(* C26 amended: the same with fail-on-threshold set and max-items not 1.   *)
(* The accepted write of the second publish is followed by processDeltas   *)
(* on the pair of the two means, and the publish ends with the failure     *)
(* signal for regressions.                                                 *)
(***************************************************************************)
FailsOnRise(p) == options[p].failOnThreshold /\ options[p].maxItems # 1

C26_SecondPublishFailsWhenAsked ==
    /\ [][\A p \in Procs : (AcceptedNow(p) /\ RiseOverStored(p) /\ FailsOnRise(p)) => (pc'[p] = "processDeltas" /\ RisePaired(p)')]_vars
    /\ [](\A p \in Procs : (pc[p] = "done" /\ WroteDocument(p) /\ RisePaired(p) /\ options[p].failOnThreshold) => failed[p] = RegressedMessage)

C26_Witness ==
    \E p \in Procs :
        /\ pc[p] = "done"
        /\ WroteDocument(p)
        /\ benchmarks[p] = <<FileA(350, 64)>>
        /\ options[p] = PublishOptions(0, <<>>, FALSE, TRUE)
        /\ Len(merged[p].entries[Suite("A")]) = 2
        /\ RisePaired(p)
        /\ failed[p] = RegressedMessage

(***************************************************************************)
(* C27  Without a suite-name override each run is appended to the suite    *)
(* named by the part of its title before the first '-', the whole title    *)
(* when it holds none; with an override every run of the invocation is     *)
(* appended to the override suite.                                         *)
(***************************************************************************)
\* the longest start of the title that holds no '-'
BeforeFirstDash(title) ==
    CHOOSE q \in {SubSeq(title, 1, n) : n \in 0..Len(title)} :
        /\ \A i \in 1..Len(q) : q[i] # "-"
        /\ Len(q) = Len(title) \/ title[Len(q) + 1] = "-"

ExpectedSuite(p, result) == IF options[p].name # <<>> THEN options[p].name ELSE BeforeFirstDash(result.Title)

RunsFor(p, s) == SelectSeq(benchmarks[p], LAMBDA result : ExpectedSuite(p, result) = s)

C27_RunGoesToNamedSuite ==
    \A p \in Procs :
        pc[p] = "merged" =>
            /\ \A i \in 1..Len(benchmarks[p]) : ExpectedSuite(p, benchmarks[p][i]) \in DOMAIN merged[p].entries
            /\ options[p].name # <<>> => \A s \in DOMAIN merged[p].entries : s # options[p].name => merged[p].entries[s] = EntriesOf(Stored, s)
            /\ \A s \in DOMAIN merged[p].entries :
                LET suite == merged[p].entries[s]
                    runs == RunsFor(p, s)
                IN  /\ \A k \in 0..(Len(runs) - 1) :
                           k < Len(suite) =>
                               /\ suite[Len(suite) - k].benches = Items(runs[Len(runs) - k])
                               /\ suite[Len(suite) - k].date = merged[p].lastUpdated
                    /\ options[p].maxItems = 0 => suite = EntriesOf(Stored, s) \o [k \in 1..Len(runs) |-> suite[Len(EntriesOf(Stored, s)) + k]]

\* titles "A-x-y" and "B" without an override: suites "A" and "B"
C27_Witness ==
    \E p \in Procs :
        /\ pc[p] = "merged"
        /\ options[p].name = <<>>
        /\ benchmarks[p] = <<FileA2, FileB>>
        /\ merged[p].entries[Suite("A")][Len(merged[p].entries[Suite("A")])].benches = Items(FileA2)
        /\ merged[p].entries[Suite("B")][Len(merged[p].entries[Suite("B")])].benches = Items(FileB)

(***************************************************************************)
(* C28  Exactly-once append: once the write of an invocation has been      *)
(* accepted, the remote document holds exactly one entry of the invocation *)
(* per discovered result file, whether the write was accepted in the       *)
(* first, second or third attempt.                                         *)
(***************************************************************************)
RECURSIVE EntriesMadeBy(_, _, _)
EntriesMadeBy(document, suites, p) ==
    IF suites = {} THEN 0
    ELSE LET s == CHOOSE x \in suites : TRUE
         IN  Len(SelectSeq(document.entries[s], LAMBDA e : MadeBy(e, p))) + EntriesMadeBy(document, suites \ {s}, p)

C28_OneEntryPerFile ==
    \A p \in Procs :
        WroteDocument(p) => EntriesMadeBy(Stored, DOMAIN Stored.entries, p) = Len(benchmarks[p])

(***************************************************************************)
(* C28 amended: once the write has been accepted, every suite of the       *)
(* remote document holds, as its last entries made by the invocation, one  *)
(* entry per discovered file that maps to the suite, in discovery order,   *)
(* less those the cap evicted in the same merge (under cap N at most the   *)
(* last N of them); and never more, in whichever attempt the write was     *)
(* accepted.                                                               *)
(***************************************************************************)
KeptOf(p, s) == IF options[p].maxItems = 0 THEN NewEntries(p, s) ELSE LastN(NewEntries(p, s), options[p].maxItems)

\* entries as they read once written to the file and parsed again
AsStored(entries) == [i \in 1..Len(entries) |-> JsonEntry(entries[i])]

C28_OneEntryPerFileKept ==
    \A p \in Procs :
        WroteDocument(p) =>
            \A s \in DOMAIN Stored.entries :
                /\ SelectSeq(Stored.entries[s], LAMBDA e : MadeBy(e, p)) = AsStored(KeptOf(p, s))
                /\ IsSuffix(KeptOf(p, s), EntriesOf(merged[p], s))

\* the write is accepted in the third attempt, two files for one suite
C28_Witness ==
    \E p \in Procs :
        /\ WroteDocument(p)
        /\ Conflicts(p) = 2
        /\ Len(FilesFor(p, Suite("A"))) = 2
        /\ options[p].maxItems = 0
        /\ EntriesMadeBy(Stored, DOMAIN Stored.entries, p) = 2

(***************************************************************************)
(* C29  An invocation that ends in an operational failure (a discovered    *)
(* file that does not parse, three conflicts, a fault of a remote call)    *)
(* leaves no entry of its own in the remote document, and an invocation    *)
(* with a file that does not parse makes no remote call at all.            *)
(***************************************************************************)
NothingPersisted(p) == EntriesMadeBy(Stored, DOMAIN Stored.entries, p) = 0

FailedOperationally(p) == failed[p] \notin {NoMessage, RegressedMessage}

C29_FailureLeavesNoEntry ==
    \A p \in Procs :
        /\ Rejected(p) => ops[p] = <<>>
        /\ FailedOperationally(p) => NothingPersisted(p)

(***************************************************************************)
(* C29 amended: the same for a failure that comes before the write is      *)
(* accepted, which is every parse error, every exhaustion and every fault  *)
(* of a remote call up to and including the write itself.  A fault of a    *)
(* comment operation comes after the accepted write: the invocation fails  *)
(* and its entries stay in the remote document.                            *)
(***************************************************************************)
FaultedInComment(p) == Faulted(p) /\ ops[p][Len(ops[p])].op \in CommentOps

C29_FailureBeforeWriteLeavesNoEntry ==
    \A p \in Procs :
        /\ Rejected(p) => ops[p] = <<>> /\ NothingPersisted(p)
        /\ Exhausted(p) => NothingPersisted(p)
        /\ (Faulted(p) /\ ~FaultedInComment(p)) => NothingPersisted(p) /\ ~WroteDocument(p)
        /\ FaultedInComment(p) => WroteDocument(p)
        /\ FailedOperationally(p) => Rejected(p) \/ Exhausted(p) \/ Faulted(p)

\* one invocation found a good file and one that does not parse, the other
\* met a fault of its write after a conflict
C29_Witness ==
    \E p, q \in Procs :
        /\ Len(paths[p]) = 2 /\ Rejected(p) /\ pc[p] = "done"
        /\ Conflicts(q) >= 1
        /\ IsLast(ops[q], "createOrUpdateFileContents", "fault")
        /\ NothingPersisted(q)
        /\ Stored.entries # <<>>

(***************************************************************************)
(* C30  Three invocations publish concurrently and nobody else writes: a   *)
(* write of an invocation conflicts at most twice, each conflict being     *)
(* owed to the accepted write of another invocation, so no invocation      *)
(* fails with retry exhaustion, and when all have ended without a fault    *)
(* the entries of all three are in the document.                           *)
(***************************************************************************)
OthersWritten(p) == Cardinality({q \in Invocations \ {p} : WroteDocument(q)})

AllEnded == \A p \in Invocations : pc[p] = "done" /\ failed[p] = NoMessage

NoExhaustionAmongThree ==
    \A p \in Invocations :
        /\ Conflicts(p) <= Cardinality(Invocations) - 1
        /\ Conflicts(p) <= OthersWritten(p)
        /\ failed[p] # ExhaustedMessage
        /\ (pc[p] = "done" /\ failed[p] = NoMessage) => WroteDocument(p)

C30_AllEntriesEndUpStored ==
    /\ NoExhaustionAmongThree
    /\ AllEnded => \A p \in Invocations : EntriesMadeBy(Stored, DOMAIN Stored.entries, p) = 1

(***************************************************************************)
(* C30 amended: conflicts and exhaustion as above, and when all have ended *)
(* without a fault every invocation's write was accepted; the document     *)
(* then holds the entries of all three when there is no cap, and under a   *)
(* cap N only the last N entries of the suite, those of the invocations    *)
(* whose writes were accepted last.                                        *)
(***************************************************************************)
C30_AllWritesAccepted ==
    /\ NoExhaustionAmongThree
    /\ AllEnded =>
        /\ remoteFile.sha = Cardinality(Invocations)
        /\ \A p \in Invocations : WroteDocument(p)
        /\ \A p \in Invocations :
            options[p].maxItems = 0 => EntriesMadeBy(Stored, DOMAIN Stored.entries, p) = 1
        /\ \A p \in Invocations :
            options[p].maxItems # 0 =>
                /\ Len(Stored.entries[Suite("A")]) = Min(Cardinality(Invocations), options[p].maxItems)
                /\ EntriesMadeBy(Stored, DOMAIN Stored.entries, p) <= 1

\* the third invocation to write met two conflicts; all three entries stored
C30_Witness ==
    /\ AllEnded
    /\ \E p \in Invocations : Conflicts(p) = 2 /\ WroteDocument(p)
    /\ Len(Stored.entries[Suite("A")]) = 3

(***************************************************************************)
(* C31  A missing target branch is never surfaced as an error, also when   *)
(* two invocations bootstrap it concurrently: an invocation that saw the   *)
(* branch as absent and met no outage of the remote does not fail, and     *)
(* once its bootstrap is over it goes on to read the file.                 *)
(***************************************************************************)
SawBranchAbsent(p) == Count(ops[p], "getBranch", "404") > 0

MetOutage(p) == \E i \in 1..Len(ops[p]) : ops[p][i].result = "fault"

CreateRefRejected(p) == Count(ops[p], "createRef", "422") > 0

C31_BootstrapNeverFails ==
    \A p \in Procs :
        (SawBranchAbsent(p) /\ ~MetOutage(p)) =>
            /\ failed[p] = NoMessage
            /\ ~CreateRefRejected(p)
            /\ pc[p] = "done" => Reads(p) > 0

(***************************************************************************)
(* C32  Whatever the interleaving of the regression evaluations of         *)
(* concurrent invocations that post to the same pull-request thread, the   *)
(* thread never holds more than one comment with the watermark.            *)
(***************************************************************************)
C32_AtMostOneWatermarkedComment == Len(Watermarked(thread)) <= 1

(***************************************************************************)
(* C33  mergeResults is a pure function of its inputs: after the call the  *)
(* existing document that was passed to it is what it was before, in its   *)
(* suite mapping and in every entry sequence, and the merged document is a *)
(* value of its own.                                                       *)
(***************************************************************************)
C33_ExistingDocumentUnchanged ==
    \A p \in Procs :
        pc[p] = "merged" =>
            /\ data[p] = Stored
            /\ \A s \in DOMAIN Stored.entries : EntriesOf(data[p], s) = Stored.entries[s]

(***************************************************************************)
(* Regression evaluations where a benchmark may have recovered: each run   *)
(* evaluates either a pair that regressed or a pair that did not, one run  *)
(* after the other, with comments enabled.                                 *)
(***************************************************************************)
SteadyPair == [current |-> Item(Benchmark("A.m", Stats(100, 5), NoMemory)), previous |-> Item(Benchmark("A.m", Stats(100, 5), NoMemory))]

EvaluatedPairs == {RegressedPair, SteadyPair}

InitRecovered ==
    /\ remoteBranch = TRUE
    /\ remoteFile = NoFile
    /\ thread \in {<<>>, <<SomeoneElses>>}
    /\ commitComments = <<>>
    /\ clock = 1
    /\ otherWrites = MaxOther
    /\ pc = [p \in Procs |-> "processDeltas"]
    /\ \E fail \in BOOLEAN : options = [p \in Procs |-> PublishOptions(0, <<>>, TRUE, fail)]
    /\ paths = [p \in Procs |-> <<>>]
    /\ benchmarks = [p \in Procs |-> <<>>]
    /\ commit = [p \in Procs |-> CommitOf(p)]
    /\ attempts = [p \in Procs |-> 0]
    /\ data = [p \in Procs |-> EmptyDocument]
    /\ sha = [p \in Procs |-> 0]
    /\ merged = [p \in Procs |-> EmptyDocument]
    /\ \E pairs \in [Procs -> EvaluatedPairs] : deltas = [p \in Procs |-> [s \in {<<"A">>} |-> <<pairs[p]>>]]
    /\ regressions = [p \in Procs |-> <<>>]
    /\ prs = [p \in Procs |-> <<>>]
    /\ commentId = [p \in Procs |-> 0]
    /\ failed = [p \in Procs |-> NoMessage]
    /\ errors = [p \in Procs |-> <<>>]
    /\ warnings = [p \in Procs |-> <<>>]
    /\ ops = [p \in Procs |-> <<>>]

SpecRecovered == InitRecovered /\ [][NextComment]_vars

\* invocation p has evaluated its pairs and found no regression
FoundNoRegression(p) == regressions[p] # <<>> /\ ~HasRegressions(regressions[p])

\* the step in which invocation p ends an evaluation without a regression
EvaluatesToNoRegression(p) == pc[p] = "processDeltas" /\ pc'[p] # "processDeltas" /\ FoundNoRegression(p)'

(***************************************************************************)
(* C34  When the evaluation finds no regression, the invocation ends       *)
(* there: it issues no comment operation (no pull-request lookup, no list, *)
(* create or update of comments), and the thread and the commit comments,  *)
(* a watermarked comment of an earlier run included, stay as they are.     *)
(***************************************************************************)
C34_NoRegressionNoCommentOperation ==
    /\ [][\A p \in Procs :
            EvaluatesToNoRegression(p) =>
                /\ pc'[p] = "done"
                /\ ops'[p] = ops[p]
                /\ thread' = thread
                /\ commitComments' = commitComments]_vars
    /\ [](\A p \in Procs : pc[p] \in CommentOps => HasRegressions(regressions[p]))

C34_Witness ==
    \E p \in Procs :
        /\ pc[p] = "done"
        /\ FoundNoRegression(p)
        /\ OpsNamed(ops[p], CommentOps) = <<>>
        /\ Len(Watermarked(thread)) = 1

\* point is one of the points of entry
PointOf(point, entry) == \E k \in 1..Len(entry.benches) : entry.benches[k] = point

(***************************************************************************)
(* C35  When two or more discovered files go to the same suite in one      *)
(* publish, every DeltaPair of that suite has as current a point of the    *)
(* entry made from the last of these files and as previous a point of the  *)
(* entry made from the file before it in the same publish, never a point   *)
(* of an entry that was stored before the publish.                         *)
(***************************************************************************)
C35_PairsWithinOnePublish ==
    \A p \in Procs :
        WroteDocument(p) =>
            \A s \in DOMAIN deltas[p] :
                Len(FilesFor(p, s)) >= 2 =>
                    LET new == NewEntries(p, s)
                        n == Len(new)
                    IN  \A i \in 1..Len(deltas[p][s]) :
                            /\ PointOf(deltas[p][s][i].current, new[n])
                            /\ PointOf(deltas[p][s][i].previous, new[n - 1])
                            /\ \A e \in 1..(Len(merged[p].entries[s]) - n) :
                                   ~PointOf(deltas[p][s][i].previous, merged[p].entries[s][e])

\* two files of suite A are merged into a history that holds the suite, and
\* a pair is made
C35_Witness ==
    \E p \in Procs : \E s \in DOMAIN deltas[p] :
        /\ WroteDocument(p)
        /\ Len(FilesFor(p, s)) >= 2
        /\ Len(merged[p].entries[s]) > Len(FilesFor(p, s))
        /\ Len(deltas[p][s]) > 0

\* invocation p publishes under max-items = 1
CapOfOne(p) == options[p].maxItems = 1

WithoutStatistics(point) == point # NoPoint /\ point.value \in {NaN, Null}

(***************************************************************************)
(* C37  A benchmark recorded without statistics never produces a duration  *)
(* RegressionRecord: neither when it is the current point of a DeltaPair   *)
(* nor when it is the previous point, read back from the stored document.  *)
(***************************************************************************)
C37_NoStatisticsNoDurationRecord ==
    \A p \in Procs :
        (pc[p] = "done" /\ DOMAIN deltas[p] # {}) =>
            \A s \in DOMAIN deltas[p] :
                (WithoutStatistics(deltas[p][s][1].current) \/ WithoutStatistics(deltas[p][s][1].previous)) =>
                    DurationRecords(regressions[p][s]) = <<>>

=============================================================================
